---- MODULE Spec2Model ----
(***************************************************************************)
(* Curator fees: the reconciliation pipeline of CuratorFeesCalculator.tsx  *)
(* (processCurations) and the paginated fetch of graphqlClient.ts          *)
(* (fetchAllCurations).                                                    *)
(*                                                                         *)
(* Strings the code transforms (toLowerCase, parseInt, unary +, BigInt,    *)
(* template concatenation) are sequences of one-character strings, so the  *)
(* transformations are computed.  Strings the code only copies or compares *)
(* (names, item ids) are plain strings.                                    *)
(*                                                                         *)
(* JavaScript numbers in human units (MANA) are carried as exact thirds:   *)
(* the integer n stands for n/3 MANA.  The creation fees of the input      *)
(* domain are whole multiples of 10^18, for which the double arithmetic of *)
(* the code is exact as well.                                              *)
(***************************************************************************)
EXTENDS Integers, Sequences, FiniteSets, TLC

VARIABLES
    pc,               \* position of processCurations
    curations,        \* the array handed to processCurations (sorted in place)
    sortedCurations,  \* curations after .sort().filter()
    uniqueTxHashes,   \* Array.from(curationsByTx.keys())
    itemIdMap,        \* result of extractItemIdsFromTxs: txHash -> (collection -> ids)
    itemIdQueues,     \* `${txHash}-${collectionId}` -> remaining ids
    curatorFees,      \* Map<string, CuratorFeesSummary>, in insertion order
    idx,              \* number of sortedCurations the forEach has handled
    steps,            \* the locals of each finished forEach iteration
    finalSummaries,   \* the returned list
    fetchPc,          \* position of fetchAllCurations
    sourceSize,       \* number of records the curation source holds in the window
    skip,             \* the offset cursor
    allCurations,     \* the records accumulated so far
    requests,         \* the offsets requested so far, in order
    pages,            \* the pages received so far, in order
    response,         \* the returned data.curations
    loading,          \* the flag set by setLoading and onLoadingChange
    error,            \* the message set by setError, <<>> for null
    reportFees,       \* App's curatorFees, the `fees` the report shows
    feesCalls,        \* the arguments of every onFeesCalculated call, in order
    clipboard,        \* the text copyToClipboard wrote, <<>> before
    resolverPc,       \* position of extractItemIdsFromTxs
    txHashes,         \* its argument
    batchStart,       \* its loop variable i
    inFlight,         \* the hashes whose receipt fetch has not settled
    batchResults,     \* txHash -> itemMap of the promises of the batch that settled
    result,           \* txHash -> itemMap, the map it returns
    failedFetches,    \* the hashes whose getTransactionReceipt rejected
    totalTransferEvents,
    transactionsWithTransferEvents,
    transactionsWithNoLogs,
    transactionsWithErrors,
    dateRange,        \* App's dateRange, named by the number of its changes
    queries,          \* the locals of every fetchAndCalculateFees call started
    receiptPc,        \* position of extractItemIdsFromTx
    receiptLogs,      \* receipt.logs, in the order of their log index
    logIndex,         \* its loop variable i
    collectionItemMap, \* collection address -> ids, the map it returns
    transferEventCount,
    mapsSeen          \* collectionItemMap after each iteration of the loop

processVars == <<pc, curations, sortedCurations, uniqueTxHashes, itemIdMap,
                 itemIdQueues, curatorFees, idx, steps, finalSummaries>>

fetchVars == <<fetchPc, sourceSize, skip, allCurations, requests, pages, response>>

componentVars == <<loading, error, reportFees, feesCalls, clipboard>>

resolverVars == <<resolverPc, txHashes, batchStart, inFlight, batchResults, result,
                  failedFetches, totalTransferEvents, transactionsWithTransferEvents,
                  transactionsWithNoLogs, transactionsWithErrors>>

queryVars == <<dateRange, queries>>

receiptVars == <<receiptPc, receiptLogs, logIndex, collectionItemMap,
                 transferEventCount, mapsSeen>>

outerVars == <<componentVars, resolverVars, queryVars, receiptVars>>

vars == <<processVars, fetchVars, outerVars>>

-----------------------------------------------------------------------------
(* Bounds *)

MaxCurations == 3

\* the most records the curation source holds
MaxRecords == 2001

\* the most transaction hashes handed to extractItemIdsFromTxs
MaxHashes == 11

\* the most changes of the date range while the component is mounted
MaxRangeChanges == 1

\* the most logs of one receipt
MaxLogs == 3

-----------------------------------------------------------------------------
(* JavaScript string and number primitives *)

Null == "null"

\* NaN; the strings of the model carry no sign, so -1 is no parse result
NaN == 0 - 1

Digits == {"0", "1", "2", "3", "4", "5", "6", "7", "8", "9"}

DigitTable ==
    [d \in Digits |->
        CASE d = "0" -> 0 [] d = "1" -> 1 [] d = "2" -> 2 [] d = "3" -> 3
          [] d = "4" -> 4 [] d = "5" -> 5 [] d = "6" -> 6 [] d = "7" -> 7
          [] d = "8" -> 8 [] d = "9" -> 9]

DigitValue(d) == DigitTable[d]

LowerChar(ch) ==
    CASE ch = "A" -> "a" [] ch = "B" -> "b" [] ch = "C" -> "c"
      [] ch = "D" -> "d" [] ch = "E" -> "e" [] ch = "F" -> "f"
      [] ch = "U" -> "u" [] ch = "X" -> "x"
      [] OTHER -> ch

\* String.prototype.toLowerCase
ToLowerCase(s) == [i \in 1..Len(s) |-> LowerChar(s[i])]

\* the value of the decimal digits s[1..n]
RECURSIVE DecimalValue(_, _)
DecimalValue(s, n) ==
    IF n = 0 THEN 0 ELSE 10 * DecimalValue(s, n - 1) + DigitValue(s[n])

\* length of the longest prefix of s made of digits
RECURSIVE DigitPrefix(_, _)
DigitPrefix(s, i) ==
    IF i < Len(s) /\ s[i + 1] \in Digits THEN DigitPrefix(s, i + 1) ELSE i

\* parseInt(s): the leading digits, NaN when there are none
ParseInt(s) ==
    LET n == DigitPrefix(s, 0) IN IF n = 0 THEN NaN ELSE DecimalValue(s, n)

\* +s: the whole string must be digits; the empty string is 0
ToNumber(s) ==
    IF DigitPrefix(s, 0) = Len(s) THEN DecimalValue(s, Len(s)) ELSE NaN

\* BigInt(s) throws a SyntaxError: the strings of the model carry no sign,
\* blank or radix prefix, so BigInt takes exactly the strings of digits
BigIntThrows(s) == DigitPrefix(s, 0) # Len(s)

\* the message of that SyntaxError, which differs between engines
BigIntSyntaxErrors(s) ==
    {<<"Cannot convert ">> \o s \o <<" to a BigInt">>,
     <<"invalid BigInt syntax">>,
     <<"Failed to parse String to BigInt">>}

-----------------------------------------------------------------------------
(* Fees *)

\* the exponent of the divisor 10^18
EtherDecimals == 18

\* Number(BigInt(s)) / Number(10^18), in thirds of a unit: dividing by 10^18
\* moves the decimal point 18 places left (the digits behind it are zero for
\* the fees of the input domain)
convertBigNumberToEther(bigNumberString) ==
    LET whole == Len(bigNumberString) - EtherDecimals
    IN  IF whole <= 0 THEN 0 ELSE 3 * DecimalValue(bigNumberString, whole)

CreationFeeOfLastItem(curation) ==
    LET items == curation.collection.items
    IN  IF Len(items) > 0
        THEN LET creationFee == items[Len(items)].creationFee
             IN  IF creationFee # <<>> /\ creationFee # <<"0">>
                 THEN convertBigNumberToEther(creationFee)
                 ELSE 0
        ELSE 0

\* creationFeeAmount of one curation (0 when there is no fee to pay)
CreationFeeAmount(curation) ==
    IF Len(curation.collection.items) > 0
    THEN LET creationFee == curation.collection.items[1].creationFee
         IN  IF creationFee # <<>> /\ creationFee # <<"0">>
             THEN convertBigNumberToEther(creationFee)
             ELSE 0
    ELSE 0

\* convertBigNumberToEther is reached and its BigInt throws
FeeIsMalformed(curation) ==
    /\ Len(curation.collection.items) > 0
    /\ LET creationFee == curation.collection.items[1].creationFee
       IN  creationFee # <<>> /\ creationFee # <<"0">> /\ BigIntThrows(creationFee)

CurationFeeUndivided(curation) == CreationFeeAmount(curation)

\* curationFee = creationFeeAmount / 3
CurationFee(curation) == CreationFeeAmount(curation) \div 3

-----------------------------------------------------------------------------
(* The input domains: the curation of the reference scenario and the        *)
(* records that depart from it in one field.                                *)

TxA == <<"0", "x", "A">>
CollC == <<"0", "x", "C">>
CuratorU1 == <<"0", "x", "U", "1">>
WholeFee(d) == <<d>> \o [i \in 1..EtherDecimals |-> "0"]

Item(fee) ==
    [blockchainId |-> "1", creationFee |-> fee,
     metadata |-> [wearable |-> "Hat", emote |-> Null]]

ReferenceCuration ==
    [timestamp |-> <<"1", "0", "0">>,
     txHash |-> TxA,
     curator |-> [id |-> CuratorU1],
     collection |-> [id |-> CollC,
                     createdAt |-> <<"2","0","0","0","0","0","0","0","0","0">>,
                     name |-> "Collection",
                     items |-> <<Item(WholeFee("3"))>>]]

WithCollection(f, v) ==
    [ReferenceCuration EXCEPT !.collection = [ReferenceCuration.collection EXCEPT ![f] = v]]

\* the fields that say who curated what, where and when
IdentityDomain ==
    {ReferenceCuration}
    \cup {[ReferenceCuration EXCEPT !.timestamp = t] :
            t \in {<<"2", "0", "0">>, <<"9", "9">>}}
    \cup {[ReferenceCuration EXCEPT !.txHash = h] :
            h \in {<<"0", "x", "a">>, <<"0", "x", "b">>}}
    \cup {[ReferenceCuration EXCEPT !.curator = [id |-> u]] :
            u \in {<<"0", "x", "u", "1">>, <<"0", "x", "u", "2">>}}
    \cup {WithCollection("id", <<"0", "x", "d">>)}

\* the fields that decide whether and how much a curation pays
FeeDomain ==
    {ReferenceCuration}
    \cup {[ReferenceCuration EXCEPT !.timestamp = <<"2", "0", "0">>]}
    \cup {[ReferenceCuration EXCEPT !.curator = [id |-> <<"0", "x", "u", "2">>]]}
    \cup {WithCollection("createdAt", t) :
            t \in {<<"1","6","5","8","1","5","3","8","5","3">>,
                   <<"1","6","5","8","1","5","3","8","5","4">>}}
    \cup {WithCollection("items", is) :
            is \in {<<>>, <<Item(<<>>)>>, <<Item(<<"0">>)>>, <<Item(WholeFee("1"))>>,
                    <<Item(WholeFee("1")), Item(WholeFee("3"))>>}}

MalformedFee == <<"1", ".", "5">>

\* a curation of another transaction whose first creation fee is no integer
MalformedCuration ==
    [WithCollection("items", <<Item(MalformedFee)>>) EXCEPT !.txHash = <<"0", "x", "B">>]

\* curations with and without a creation fee that BigInt rejects
MalformedDomain ==
    {ReferenceCuration,
     [ReferenceCuration EXCEPT !.timestamp = <<"2", "0", "0">>],
     MalformedCuration,
     [MalformedCuration EXCEPT
        !.collection.createdAt = <<"1","6","5","8","1","5","3","8","5","3">>],
     WithCollection("items", <<Item(WholeFee("3")), Item(MalformedFee)>>)}

\* a creation fee of 30 * 10^18
ThirtyFee == <<"3">> \o WholeFee("0")

\* curations of a known and of an unknown curator whose fees are whole
\* numbers of units, which a double holds and prints exactly
ReportDomain ==
    {ReferenceCuration,
     [ReferenceCuration EXCEPT !.curator = [id |-> <<"0", "x", "u", "2">>]],
     WithCollection("items", <<Item(ThirtyFee)>>),
     [WithCollection("items", <<Item(ThirtyFee)>>)
        EXCEPT !.curator = [id |-> <<"0", "x", "u", "2">>]],
     WithCollection("items", <<Item(<<"0">>)>>)}

\* what one receipt can resolve to: collection address (lowercased) -> ids
ReceiptMaps ==
    {[c \in {} |-> <<>>],
     [c \in {<<"0", "x", "c">>} |-> <<"1">>],
     [c \in {<<"0", "x", "c">>} |-> <<"1", "2">>],
     [c \in {<<"0", "x", "c">>} |-> <<"1", "1">>],
     [c \in {<<"0", "x", "c">>, <<"0", "x", "d">>} |-> <<"1">>]}

\* src/curatorData.ts: lowercase curator address -> { name, paymentAddress }
curatorData(curatorId) ==
    IF curatorId = <<"0", "x", "u", "1">>
    THEN <<[name |-> "Curator One", paymentAddress |-> <<"0", "x", "p", "1">>]>>
    ELSE <<>>

-----------------------------------------------------------------------------
(* processCurations *)

CreatedAtCutoff == 1658153853

InsertBeforeEqualTimestamps(sorted, c) ==
    LET k == Cardinality({i \in 1..Len(sorted) :
                            ToNumber(sorted[i].timestamp) < ToNumber(c.timestamp)})
    IN  SubSeq(sorted, 1, k) \o <<c>> \o SubSeq(sorted, k + 1, Len(sorted))

\* Array.prototype.sort with (a, b) => +a.timestamp - +b.timestamp: stable
InsertByTimestamp(sorted, c) ==
    LET k == Cardinality({i \in 1..Len(sorted) :
                            ToNumber(sorted[i].timestamp) <= ToNumber(c.timestamp)})
    IN  SubSeq(sorted, 1, k) \o <<c>> \o SubSeq(sorted, k + 1, Len(sorted))

RECURSIVE SortByTimestamp(_, _)
SortByTimestamp(list, n) ==
    IF n = 0 THEN <<>> ELSE InsertByTimestamp(SortByTimestamp(list, n - 1), list[n])

AtOrAfterCutoff(curation) == ParseInt(curation.collection.createdAt) >= CreatedAtCutoff

\* the predicate of .filter()
AfterCutoff(curation) == ParseInt(curation.collection.createdAt) > CreatedAtCutoff

RECURSIVE Filter(_, _)
Filter(list, n) ==
    IF n = 0 THEN <<>>
    ELSE IF AfterCutoff(list[n]) THEN Append(Filter(list, n - 1), list[n])
         ELSE Filter(list, n - 1)

\* keys of curationsByTx in insertion order
RECURSIVE TxHashKeys(_, _)
TxHashKeys(list, n) ==
    IF n = 0 THEN <<>>
    ELSE LET before == TxHashKeys(list, n - 1)
             txHash == ToLowerCase(list[n].txHash)
         IN  IF \E i \in 1..Len(before) : before[i] = txHash
             THEN before ELSE Append(before, txHash)

Range(f) == {f[i] : i \in DOMAIN f}

\* `${txHash}-${collectionId}`
QueueKey(txHash, collectionId) == txHash \o <<"-">> \o collectionId

SortAndFilter ==
    /\ pc = "start"
    /\ curations' = SortByTimestamp(curations, Len(curations))
    /\ sortedCurations' = Filter(curations', Len(curations'))
    /\ uniqueTxHashes' = TxHashKeys(sortedCurations', Len(sortedCurations'))
    /\ pc' = "resolve"
    /\ UNCHANGED <<itemIdMap, itemIdQueues, curatorFees, idx, steps, finalSummaries,
                   fetchVars, outerVars>>

\* itemIdQueues.set(key, [...itemIds]) for every (txHash, collectionId) of the map
QueuesOf(map) ==
    LET pairs == {<<t, c>> : t \in DOMAIN map, c \in UNION {DOMAIN map[x] : x \in DOMAIN map}}
        present == {p \in pairs : p[2] \in DOMAIN map[p[1]]}
    IN  [k \in {QueueKey(p[1], p[2]) : p \in present} |->
            LET p == CHOOSE q \in present : QueueKey(q[1], q[2]) = k
            IN  map[p[1]][p[2]]]

\* await extractItemIdsFromTxs(uniqueTxHashes) resolves with one entry per
\* hash; the queues are built from it
ExtractItemIds ==
    /\ pc = "resolve"
    /\ \E m \in [Range(uniqueTxHashes) -> ReceiptMaps] :
          /\ itemIdMap' = m
          /\ itemIdQueues' = QueuesOf(m)
    /\ pc' = "loop"
    /\ UNCHANGED <<curations, sortedCurations, uniqueTxHashes,
                   curatorFees, idx, steps, finalSummaries, fetchVars, outerVars>>

\* itemQueue && itemQueue.length > 0
HasItem(queues, queueKey) ==
    queueKey \in DOMAIN queues /\ Len(queues[queueKey]) > 0

\* what a queue that is shifted hands out and what it keeps
ShiftNothing(queues, queueKey) ==
    [itemId |-> IF HasItem(queues, queueKey) THEN Head(queues[queueKey]) ELSE Null,
     queues |-> queues]

\* itemId = itemQueue.shift() || null (an id is never the empty string):
\* the id handed out and the queues afterwards
Shift(queues, queueKey) ==
    IF HasItem(queues, queueKey)
    THEN [itemId |-> Head(queues[queueKey]),
          queues |-> [queues EXCEPT ![queueKey] = Tail(@)]]
    ELSE [itemId |-> Null, queues |-> queues]

CaseSensitiveQueueKey(curation) ==
    QueueKey(curation.txHash, ToLowerCase(curation.collection.id))

QueueKeyOfPaidCuration(curation) ==
    IF CreationFeeAmount(curation) > 0
    THEN QueueKey(ToLowerCase(curation.txHash), ToLowerCase(curation.collection.id))
    ELSE <<>>

\* queueKey of one curation: both parts lowercased
CurationQueueKey(curation) ==
    QueueKey(ToLowerCase(curation.txHash), ToLowerCase(curation.collection.id))

\* items.find(item => item.blockchainId === itemId), then
\* metadata.wearable.name || metadata.emote.name || null
ItemNameOf(curation, itemId) ==
    LET items == curation.collection.items
        hits == {i \in 1..Len(items) : items[i].blockchainId = itemId}
    IN  IF itemId = Null \/ hits = {} THEN Null
        ELSE LET item == items[CHOOSE i \in hits : \A j \in hits : i <= j]
             IN  IF item.metadata.wearable # Null THEN item.metadata.wearable
                 ELSE item.metadata.emote

CuratorIdAsGiven(curation) == curation.curator.id

\* curatorId = curation.curator.id.toLowerCase()
CuratorIdOf(curation) == ToLowerCase(curation.curator.id)

\* curatorData[curatorId] || { name: "Unknown", paymentAddress: curatorId }
CuratorInfo(curatorId) ==
    IF curatorData(curatorId) # <<>>
    THEN curatorData(curatorId)[1]
    ELSE [name |-> "Unknown", paymentAddress |-> curatorId]

CurationDetailOf(curation, itemId) ==
    [timestamp |-> curation.timestamp,
     txHash |-> curation.txHash,
     collectionId |-> curation.collection.id,
     collectionName |-> curation.collection.name,
     itemId |-> itemId,
     itemName |-> ItemNameOf(curation, itemId),
     creationFee |-> CreationFeeAmount(curation),
     curatorFee |-> CurationFee(curation)]

\* position of curatorId in the map, 0 when absent
SummaryIndex(fees, curatorId) ==
    IF \E i \in 1..Len(fees) : fees[i].curatorId = curatorId
    THEN CHOOSE i \in 1..Len(fees) : fees[i].curatorId = curatorId
    ELSE 0

AddToCuratorUncounted(fees, curatorId, detail) ==
    LET i == SummaryIndex(fees, curatorId)
    IN  IF i > 0
        THEN [fees EXCEPT ![i] =
                [@ EXCEPT !.totalFees = @ + detail.curatorFee,
                          !.curations = Append(@, detail)]]
        ELSE Append(fees,
                [curatorId |-> curatorId,
                 curatorName |-> CuratorInfo(curatorId).name,
                 paymentAddress |-> CuratorInfo(curatorId).paymentAddress,
                 totalFees |-> detail.curatorFee,
                 curationCount |-> 1,
                 curations |-> <<detail>>])

\* "Update curator totals": the map after one fee-bearing curation
AddToCurator(fees, curatorId, detail) ==
    LET i == SummaryIndex(fees, curatorId)
    IN  IF i > 0
        THEN [fees EXCEPT ![i] =
                [@ EXCEPT !.totalFees = @ + detail.curatorFee,
                          !.curationCount = @ + 1,
                          !.curations = Append(@, detail)]]
        ELSE Append(fees,
                [curatorId |-> curatorId,
                 curatorName |-> CuratorInfo(curatorId).name,
                 paymentAddress |-> CuratorInfo(curatorId).paymentAddress,
                 totalFees |-> detail.curatorFee,
                 curationCount |-> 1,
                 curations |-> <<detail>>])

\* if (curationFee > 0)
IsRecorded(curation) == CurationFee(curation) > 0

ResolvedListsAliased(map, queues) ==
    [t \in DOMAIN map |-> [c \in DOMAIN map[t] |-> queues[QueueKey(t, c)]]]

\* the lists of itemIdMap after a queue was shifted: each queue is a copy
\* ([...itemIds]), so the lists are what they were
ResolvedListsAfterShift(map, queues) == map

\* one iteration of sortedCurations.forEach
ProcessCuration ==
    /\ pc = "loop"
    /\ idx < Len(sortedCurations)
    /\ ~FeeIsMalformed(sortedCurations[idx + 1])
    /\ LET curation == sortedCurations[idx + 1]
           curatorId == CuratorIdOf(curation)
           queueKey == CurationQueueKey(curation)
           shifted == Shift(itemIdQueues, queueKey)
           itemId == shifted.itemId
           detail == CurationDetailOf(curation, itemId)
       IN  /\ itemIdQueues' = shifted.queues
           /\ curatorFees' = IF IsRecorded(curation)
                             THEN AddToCurator(curatorFees, curatorId, detail)
                             ELSE curatorFees
           /\ steps' = Append(steps,
                  [curatorId |-> curatorId,
                   queueKey |-> queueKey,
                   itemId |-> itemId,
                   creationFeeAmount |-> CreationFeeAmount(curation),
                   curationFee |-> CurationFee(curation),
                   detail |-> IF IsRecorded(curation) THEN <<detail>> ELSE <<>>])
           /\ itemIdMap' = ResolvedListsAfterShift(itemIdMap, shifted.queues)
    /\ idx' = idx + 1
    /\ UNCHANGED <<pc, curations, sortedCurations, uniqueTxHashes,
                   finalSummaries, fetchVars, outerVars>>

CaughtMessageLost(err) == <<>>

\* err instanceof Error ? err.message : "Failed to fetch curation data",
\* for the Error objects the model throws
CaughtMessage(err) == err

\* the iteration in which BigInt throws: the forEach and processCurations
\* are left, and the catch and finally blocks of fetchAndCalculateFees run
ProcessCurationThrows ==
    /\ pc = "loop"
    /\ idx < Len(sortedCurations)
    /\ FeeIsMalformed(sortedCurations[idx + 1])
    /\ pc' = "failed"
    /\ \E err \in BigIntSyntaxErrors(sortedCurations[idx + 1].collection.items[1].creationFee) :
          error' = CaughtMessage(err)
    /\ reportFees' = <<>>
    /\ feesCalls' = Append(feesCalls, <<>>)
    /\ loading' = FALSE
    /\ UNCHANGED <<curations, sortedCurations, uniqueTxHashes, itemIdMap, itemIdQueues,
                   curatorFees, idx, steps, finalSummaries, fetchVars,
                   clipboard, resolverVars, queryVars,
                   receiptVars>>

\* .filter((summary) => summary.totalFees > 0)
RECURSIVE PayableSummaries(_, _)
PayableSummaries(fees, n) ==
    IF n = 0 THEN <<>>
    ELSE IF fees[n].totalFees > 0
         THEN Append(PayableSummaries(fees, n - 1), fees[n])
         ELSE PayableSummaries(fees, n - 1)

InsertBeforeTies(sorted, s) ==
    LET k == Cardinality({i \in 1..Len(sorted) : sorted[i].totalFees > s.totalFees})
    IN  SubSeq(sorted, 1, k) \o <<s>> \o SubSeq(sorted, k + 1, Len(sorted))

\* .sort((a, b) => b.totalFees - a.totalFees): stable, descending
InsertByTotalFees(sorted, s) ==
    LET k == Cardinality({i \in 1..Len(sorted) : sorted[i].totalFees >= s.totalFees})
    IN  SubSeq(sorted, 1, k) \o <<s>> \o SubSeq(sorted, k + 1, Len(sorted))

RECURSIVE SortByTotalFees(_, _)
SortByTotalFees(list, n) ==
    IF n = 0 THEN <<>> ELSE InsertByTotalFees(SortByTotalFees(list, n - 1), list[n])

FinalSummariesOf(fees) ==
    LET payable == PayableSummaries(fees, Len(fees))
    IN  SortByTotalFees(payable, Len(payable))

\* the forEach is over: filter, sort and return; fetchAndCalculateFees goes on
\* with onFeesCalculated(curatorSummaries) and its finally block
Finalize ==
    /\ pc = "loop"
    /\ idx = Len(sortedCurations)
    /\ finalSummaries' = FinalSummariesOf(curatorFees)
    /\ pc' = "done"
    /\ reportFees' = finalSummaries'
    /\ feesCalls' = Append(feesCalls, finalSummaries')
    /\ loading' = FALSE
    /\ UNCHANGED <<curations, sortedCurations, uniqueTxHashes, itemIdMap,
                   itemIdQueues, curatorFees, idx, steps, fetchVars,
                   error, clipboard, resolverVars, queryVars,
                   receiptVars>>

\* the queues and the curatorFees map after the first n iterations of the
\* forEach, begun with the given queues and map
RECURSIVE ForEach(_, _, _, _)
ForEach(sorted, queues, summaries, n) ==
    IF n = 0 THEN [queues |-> queues, curatorFees |-> summaries]
    ELSE LET before == ForEach(sorted, queues, summaries, n - 1)
             curation == sorted[n]
             shifted == Shift(before.queues, CurationQueueKey(curation))
         IN  [queues |-> shifted.queues,
              curatorFees |->
                 IF IsRecorded(curation)
                 THEN AddToCurator(before.curatorFees,
                                   CuratorIdOf(curation),
                                   CurationDetailOf(curation, shifted.itemId))
                 ELSE before.curatorFees]

\* what one call of processCurations returns for a curation list whose fees
\* are well formed when extractItemIdsFromTxs resolves with the given map
processCurations(list, resolved) ==
    LET inOrder == SortByTimestamp(list, Len(list))
        sorted == Filter(inOrder, Len(inOrder))
        loop == ForEach(sorted, QueuesOf(resolved), <<>>, Len(sorted))
    IN  FinalSummariesOf(loop.curatorFees)

-----------------------------------------------------------------------------
(* fetchAllCurations *)

\* `first: 1000` of the query
PageLimit == 1000

batchSize == 1000

Min(a, b) == IF a < b THEN a ELSE b

\* response.data.curations for one offset: the curation source answers with the
\* records behind the offset, at most PageLimit of them, in its own order; a
\* record is named by its rank in that order
PageAt(offset) ==
    [i \in 1..Min(PageLimit, IF sourceSize > offset THEN sourceSize - offset ELSE 0)
        |-> offset + i]

ConcatenateReplacing(all, page) == page

\* allCurations = [...allCurations, ...curations]
Concatenate(all, page) == all \o page

IsLastPageWhenEmpty(page) == FALSE

\* curations.length < batchSize
IsLastPage(page) == Len(page) < batchSize

\* if (curations.length === 0) break; and the return
EmptyPage ==
    /\ fetchPc = "loop"
    /\ Len(PageAt(skip)) = 0
    /\ requests' = Append(requests, skip)
    /\ pages' = Append(pages, PageAt(skip))
    /\ response' = allCurations
    /\ fetchPc' = "done"
    /\ UNCHANGED <<sourceSize, skip, allCurations, processVars, outerVars>>

\* a page that is not empty and ends the loop, and the return
ShortPage ==
    /\ fetchPc = "loop"
    /\ Len(PageAt(skip)) # 0
    /\ IsLastPage(PageAt(skip))
    /\ requests' = Append(requests, skip)
    /\ pages' = Append(pages, PageAt(skip))
    /\ allCurations' = Concatenate(allCurations, PageAt(skip))
    /\ response' = allCurations'
    /\ fetchPc' = "done"
    /\ UNCHANGED <<sourceSize, skip, processVars, outerVars>>

\* a page that does not end the loop: skip += batchSize
FullPage ==
    /\ fetchPc = "loop"
    /\ Len(PageAt(skip)) # 0
    /\ ~IsLastPage(PageAt(skip))
    /\ requests' = Append(requests, skip)
    /\ pages' = Append(pages, PageAt(skip))
    /\ allCurations' = Concatenate(allCurations, PageAt(skip))
    /\ skip' = skip + batchSize
    /\ UNCHANGED <<fetchPc, sourceSize, response, processVars, outerVars>>

\* response.statusText of a response that is not ok
StatusTexts == {"Internal Server Error", ""}

\* new Error(`GraphQL request failed: ${response.statusText}`)
RequestFailed(statusText) == <<"GraphQL request failed: ", statusText>>

\* a page request is answered with !response.ok: fetchCurations throws,
\* fetchAllCurations does not catch, and the catch and finally blocks of
\* fetchAndCalculateFees run
FailedPage ==
    /\ fetchPc = "loop"
    /\ requests' = Append(requests, skip)
    /\ fetchPc' = "failed"
    /\ \E statusText \in StatusTexts :
          error' = CaughtMessage(RequestFailed(statusText))
    /\ reportFees' = <<>>
    /\ feesCalls' = Append(feesCalls, <<>>)
    /\ loading' = FALSE
    /\ UNCHANGED <<sourceSize, skip, allCurations, pages, response, processVars,
                   clipboard, resolverVars, queryVars,
                   receiptVars>>

-----------------------------------------------------------------------------
(* CuratorFeesReport: generateMultisigCSV *)

DigitChars == <<"0", "1", "2", "3", "4", "5", "6", "7", "8", "9">>

\* the decimal digits of a natural number
RECURSIVE NatToString(_)
NatToString(n) ==
    IF n < 10 THEN <<DigitChars[n + 1]>>
    ELSE NatToString(n \div 10) \o <<DigitChars[(n % 10) + 1]>>

\* totalFees.toString() of a total that is a whole number of units (the
\* argument is in thirds of a unit)
NumberToString(thirds) ==
    CASE thirds % 3 = 0 -> NatToString(thirds \div 3)

\* position of the decimal point of a string, 0 when it has none
PointOf(value) ==
    IF \E k \in 1..Len(value) : value[k] = "."
    THEN CHOOSE k \in 1..Len(value) : value[k] = "." /\ \A j \in 1..(k - 1) : value[j] # "."
    ELSE 0

\* BigInt(s).toString() of a string of digits: no leading zeros
RECURSIVE StripLeadingZeros(_)
StripLeadingZeros(digits) ==
    IF Len(digits) > 1 /\ digits[1] = "0" THEN StripLeadingZeros(Tail(digits)) ELSE digits

\* fraction.replace(/(0+)$/, "")
RECURSIVE StripTrailingZeros(_)
StripTrailingZeros(digits) ==
    IF Len(digits) > 0 /\ digits[Len(digits)] = "0"
    THEN StripTrailingZeros(SubSeq(digits, 1, Len(digits) - 1)) ELSE digits

parseEtherUnscaled(value) == value

\* parseEther(value).toString() of viem, for a decimal string with at most
\* 18 digits behind the point: the integer part followed by the fraction
\* padded with zeros to 18 digits, read as an integer
parseEther(value) ==
    LET point == PointOf(value)
        integer == IF point = 0 THEN value ELSE SubSeq(value, 1, point - 1)
        fraction == IF point = 0 THEN <<"0">> ELSE SubSeq(value, point + 1, Len(value))
        kept == StripTrailingZeros(fraction)
        padded == kept \o [k \in 1..(EtherDecimals - Len(kept)) |-> "0"]
    IN  StripLeadingZeros(integer \o padded)

\* one row of the CSV
CsvRow(curator) ==
    <<"erc20,0x0F5D2fB29fb7d3CFeE444a200298f468908cC942,">>
        \o curator.paymentAddress
        \o <<",">>
        \o parseEther(NumberToString(curator.totalFees))
        \o <<"\n">>

RECURSIVE CsvRows(_, _)
CsvRows(list, n) ==
    IF n = 0 THEN <<>> ELSE CsvRows(list, n - 1) \o CsvRow(list[n])

\* the text as a sequence of pieces: the literals of the code are one piece
\* each, the interpolated values one piece per character
generateMultisigCSV(list) ==
    <<"token_type,token_address,receiver,amount", "\n">> \o CsvRows(list, Len(list))

\* the button of the report, which is rendered when the report is not
\* loading and has fees: navigator.clipboard.writeText(generateMultisigCSV())
CopyToClipboard ==
    /\ loading = FALSE
    /\ Len(reportFees) > 0
    /\ clipboard' = generateMultisigCSV(reportFees)
    /\ UNCHANGED <<loading, error, reportFees, feesCalls, processVars, fetchVars,
                   resolverVars, queryVars,
                   receiptVars>>

-----------------------------------------------------------------------------
(* useEffect: one fetchAndCalculateFees call per date range, none cancelled *)

\* what the curation source may hold for a date range: the ranges of even
\* number hold curations of curator 0xU1, the others one of curator 0xu2 or
\* nothing
SourcesFor(range) ==
    IF range % 2 = 0
    THEN {<<ReferenceCuration>>,
          <<[ReferenceCuration EXCEPT !.timestamp = <<"2", "0", "0">>], ReferenceCuration>>}
    ELSE {<<>>,
          <<[WithCollection("items", <<Item(WholeFee("1"))>>)
                EXCEPT !.curator = [id |-> <<"0", "x", "u", "2">>]]>>}

\* the locals of a fetchAndCalculateFees call that has reached
\* await fetchAllCurations(dateRange)
NewQuery(range) ==
    [pc |-> "fetching", range |-> range, curations |-> <<>>, sortedCurations |-> <<>>,
     uniqueTxHashes |-> <<>>, itemIdMap |-> <<>>, curatorFees |-> <<>>,
     finalSummaries |-> <<>>]

SharedCuratorFees(qs, q) ==
    IF \E p \in DOMAIN qs : p # q /\ qs[p].pc = "done"
    THEN qs[CHOOSE p \in DOMAIN qs : p # q /\ qs[p].pc = "done"].curatorFees
    ELSE qs[q].curatorFees

\* the curatorFees map the forEach of call q writes to: the one its own
\* processCurations call has created
OwnCuratorFees(qs, q) == qs[q].curatorFees

\* setDateRange with a new range: the effect runs again and starts a call of
\* fetchAndCalculateFees next to the ones in flight
DateRangeChanges ==
    /\ dateRange < MaxRangeChanges
    /\ dateRange' = dateRange + 1
    /\ queries' = Append(queries, NewQuery(dateRange'))
    /\ loading' = TRUE
    /\ error' = <<>>
    /\ UNCHANGED <<reportFees, feesCalls, clipboard, processVars, fetchVars, resolverVars,
                       receiptVars>>

\* fetchAllCurations of call q resolves; processCurations runs up to
\* await extractItemIdsFromTxs
QueryFetched ==
    \E q \in DOMAIN queries :
        /\ queries[q].pc = "fetching"
        /\ \E list \in SourcesFor(queries[q].range) :
              LET inOrder == SortByTimestamp(list, Len(list))
                  sorted == Filter(inOrder, Len(inOrder))
              IN  queries' = [queries EXCEPT ![q] =
                      [@ EXCEPT !.pc = "resolving",
                                !.curations = inOrder,
                                !.sortedCurations = sorted,
                                !.uniqueTxHashes = TxHashKeys(sorted, Len(sorted)),
                                !.curatorFees = <<>>]]
        /\ UNCHANGED <<dateRange, componentVars, processVars, fetchVars, resolverVars,
                       receiptVars>>

\* a page request of call q is not ok: catch and finally
QueryFetchFails ==
    \E q \in DOMAIN queries :
        /\ queries[q].pc = "fetching"
        /\ queries' = [queries EXCEPT ![q].pc = "failed"]
        /\ \E statusText \in StatusTexts :
              error' = CaughtMessage(RequestFailed(statusText))
        /\ reportFees' = <<>>
        /\ feesCalls' = Append(feesCalls, <<>>)
        /\ loading' = FALSE
        /\ UNCHANGED <<dateRange, clipboard, processVars, fetchVars, resolverVars,
                       receiptVars>>

\* extractItemIdsFromTxs of call q resolves: the queues, the forEach, the
\* final list, onFeesCalculated and finally
QueryResolved ==
    \E q \in DOMAIN queries :
        /\ queries[q].pc = "resolving"
        /\ \A k \in 1..Len(queries[q].sortedCurations) :
              ~FeeIsMalformed(queries[q].sortedCurations[k])
        /\ \E m \in [Range(queries[q].uniqueTxHashes) -> ReceiptMaps] :
              LET sorted == queries[q].sortedCurations
                  loop == ForEach(sorted, QueuesOf(m), OwnCuratorFees(queries, q),
                                  Len(sorted))
                  final == FinalSummariesOf(loop.curatorFees)
              IN  /\ queries' = [queries EXCEPT ![q] =
                        [@ EXCEPT !.pc = "done",
                                  !.itemIdMap = m,
                                  !.curatorFees = loop.curatorFees,
                                  !.finalSummaries = final]]
                  /\ reportFees' = final
                  /\ feesCalls' = Append(feesCalls, final)
        /\ loading' = FALSE
        /\ UNCHANGED <<dateRange, error, clipboard, processVars, fetchVars, resolverVars,
                       receiptVars>>

-----------------------------------------------------------------------------
(* extractItemIdsFromTx: the scan of the logs of one receipt *)

\* keccak256("Transfer(address,address,uint256)")
TRANSFER_EVENT_SIGNATURE ==
    <<"0", "x", "d", "d", "f", "2", "5", "2", "a", "d", "1", "b", "e", "2", "c", "8",
      "9", "b", "6", "9", "c", "2", "b", "0", "6", "8", "f", "c", "3", "7", "8", "d",
      "a", "a", "9", "5", "2", "b", "a", "7", "f", "1", "6", "3", "c", "4", "a", "1",
      "1", "6", "2", "8", "f", "5", "5", "a", "4", "d", "f", "5", "2", "3", "b", "3",
      "e", "f">>

CURATION_EVENT_SIGNATURE ==
    <<"0", "x", "8", "7", "a", "9", "7", "2", "a", "b", "2", "d", "b", "2", "d", "4",
      "7", "a", "0", "b", "b", "e", "f", "e", "7", "2", "c", "e", "f", "c", "4", "f",
      "e", "5", "a", "3", "8", "b", "1", "b", "9", "d", "2", "b", "c", "4", "b", "9",
      "f", "3", "6", "6", "b", "5", "9", "f", "d", "b", "6", "d", "b", "d", "9", "5",
      "8", "1">>

\* the signature of an event that is neither: Approval(address,address,uint256)
ApprovalSignature ==
    <<"0", "x", "8", "c", "5", "b", "e", "1", "e", "5", "e", "b", "e", "c", "7", "d",
      "5", "b", "d", "1", "4", "f", "7", "1", "4", "2", "7", "d", "1", "e", "8", "4",
      "f", "3", "d", "d", "0", "3", "1", "4", "c", "0", "f", "7", "b", "2", "2", "9",
      "1", "e", "5", "b", "2", "0", "0", "a", "c", "8", "c", "7", "c", "3", "b", "9",
      "2", "5">>

HexDigits ==
    <<"0", "1", "2", "3", "4", "5", "6", "7", "8", "9", "a", "b", "c", "d", "e", "f">>

\* the value of one hexadecimal digit, of either case
HexDigitValue(ch) ==
    (CHOOSE k \in 1..Len(HexDigits) : HexDigits[k] = LowerChar(ch)) - 1

\* the value of the hexadecimal digits s[3..n] behind the prefix 0x
RECURSIVE HexValue(_, _)
HexValue(s, n) ==
    IF n <= 2 THEN 0 ELSE 16 * HexValue(s, n - 1) + HexDigitValue(s[n])

\* BigInt(s).toString() of a hexadecimal string 0x...: its value in decimal
BigIntToString(s) == NatToString(HexValue(s, Len(s)))

\* log.topics[0]?.toLowerCase(), <<>> for undefined
FirstTopic(log) ==
    IF Len(log.topics) > 0 THEN <<ToLowerCase(log.topics[1])>> ELSE <<>>

isTransferEvent(log) == FirstTopic(log) = <<ToLowerCase(TRANSFER_EVENT_SIGNATURE)>>

isCurationEvent(log) == FirstTopic(log) = <<ToLowerCase(CURATION_EVENT_SIGNATURE)>>

\* log.topics.length >= n + 1 && log.topics[n], for the 0-based position n
HasTopic(log, n) == Len(log.topics) >= n + 1 /\ log.topics[n + 1] # <<>>

\* the first branch of the scan
TransferWithTokenId(log) == isTransferEvent(log) /\ HasTopic(log, 3)

\* tokenId.toString() of BigInt(log.topics[3])
TransferItemId(log) == BigIntToString(log.topics[4])

CurationItemIdFirstTopicFirst(log) ==
    IF HasTopic(log, 1) THEN <<BigIntToString(log.topics[2])>>
    ELSE IF HasTopic(log, 2) THEN <<BigIntToString(log.topics[3])>>
    ELSE IF log.data # <<>> /\ log.data # <<"0", "x">> /\ Len(log.data) >= 66
         THEN <<BigIntToString(<<"0", "x">> \o SubSeq(log.data, 3, 66))>>
         ELSE <<>>

\* itemId of a curation event, <<>> for null: topics[2], else topics[1], else
\* the first 32 bytes of the data, log.data.slice(2, 66)
CurationItemId(log) ==
    IF HasTopic(log, 2) THEN <<BigIntToString(log.topics[3])>>
    ELSE IF HasTopic(log, 1) THEN <<BigIntToString(log.topics[2])>>
    ELSE IF log.data # <<>> /\ log.data # <<"0", "x">> /\ Len(log.data) >= 66
         THEN <<BigIntToString(<<"0", "x">> \o SubSeq(log.data, 3, 66))>>
         ELSE <<>>

\* a 32-byte word in hexadecimal whose last digits are given
Word(hex) == <<"0", "x">> \o [i \in 1..(64 - Len(hex)) |-> "0"] \o hex

\* an ERC721 transfer of token 1 emitted by the collection contract 0xC
ReferenceLog ==
    [address |-> <<"0", "x", "C">>,
     topics |-> <<TRANSFER_EVENT_SIGNATURE, Word(<<"a", "1">>), Word(<<"b", "2">>),
                  Word(<<"1">>)>>,
     data |-> <<"0", "x">>]

CurationLog(topics, data) ==
    [address |-> <<"0", "x", "C">>,
     topics |-> <<CURATION_EVENT_SIGNATURE>> \o topics,
     data |-> data]

\* the logs of a receipt: the reference log and the logs that depart from it
\* in the emitting contract, the token, the number of topics, the event and
\* the data
LogDomain ==
    {ReferenceLog,
     [ReferenceLog EXCEPT !.address = <<"0", "x", "c">>, !.topics[4] = Word(<<"2">>)],
     [ReferenceLog EXCEPT !.address = <<"0", "x", "d">>, !.topics[4] = Word(<<"a">>)],
     [ReferenceLog EXCEPT !.topics = SubSeq(@, 1, 3), !.data = Word(<<"5">>)],
     [ReferenceLog EXCEPT !.topics[1] = ApprovalSignature, !.topics[4] = Word(<<"3">>)],
     [ReferenceLog EXCEPT !.topics = <<>>],
     CurationLog(<<Word(<<"7">>), Word(<<"f", "f">>)>>, <<"0", "x">>),
     CurationLog(<<Word(<<"7">>)>>, Word(<<"5">>)),
     CurationLog(<<>>, Word(<<"9">>) \o SubSeq(Word(<<"3">>), 3, 66)),
     CurationLog(<<>>, <<"0", "x">>),
     CurationLog(<<>>, <<"0", "x", "0", "9">>)}

PushInFront(map, collectionAddress, itemId) ==
    [a \in DOMAIN map \cup {collectionAddress} |->
        IF a = collectionAddress
        THEN IF a \in DOMAIN map THEN <<itemId>> \o map[a] ELSE <<itemId>>
        ELSE map[a]]

\* if (!collectionItemMap.has(collectionAddress)) set(collectionAddress, []);
\* collectionItemMap.get(collectionAddress).push(itemId)
PushItemId(map, collectionAddress, itemId) ==
    [a \in DOMAIN map \cup {collectionAddress} |->
        IF a = collectionAddress
        THEN IF a \in DOMAIN map THEN Append(map[a], itemId) ELSE <<itemId>>
        ELSE map[a]]

\* one iteration of the loop over receipt.logs
ScanLog ==
    /\ receiptPc = "scan"
    /\ logIndex < Len(receiptLogs)
    /\ LET log == receiptLogs[logIndex + 1]
           collectionAddress == ToLowerCase(log.address)
       IN  IF TransferWithTokenId(log)
           THEN /\ transferEventCount' = transferEventCount + 1
                /\ collectionItemMap' =
                      PushItemId(collectionItemMap, collectionAddress, TransferItemId(log))
           ELSE IF isCurationEvent(log) /\ CurationItemId(log) # <<>>
           THEN /\ transferEventCount' = transferEventCount + 1
                /\ collectionItemMap' =
                      PushItemId(collectionItemMap, collectionAddress, CurationItemId(log)[1])
           ELSE UNCHANGED <<transferEventCount, collectionItemMap>>
    /\ logIndex' = logIndex + 1
    /\ mapsSeen' = Append(mapsSeen, collectionItemMap')
    /\ UNCHANGED <<receiptPc, receiptLogs, processVars, fetchVars,
                   componentVars, resolverVars, queryVars>>

\* the loop is over: return collectionItemMap
ReturnItemMap ==
    /\ receiptPc = "scan"
    /\ logIndex = Len(receiptLogs)
    /\ receiptPc' = "returned"
    /\ UNCHANGED <<receiptLogs, logIndex, collectionItemMap, transferEventCount,
                   mapsSeen, processVars, fetchVars, componentVars, resolverVars,
                   queryVars>>

-----------------------------------------------------------------------------
(* extractItemIdsFromTxs *)

\* const batchSize = 10 of extractItemIdsFromTxs
txBatchSize == 10

HexChars == <<"1", "2", "3", "4", "5", "6", "7", "8", "9", "a", "b", "c", "d", "e", "f">>

\* the k-th of the distinct lowercase hashes handed in
TxHashOf(k) == <<"0", "x", HexChars[k]>>

\* new Map()
EmptyItemMap == [c \in {} |-> <<>>]

\* what extractItemIdsFromTx makes of the receipt of a transaction once
\* getTransactionReceipt has answered: the chain holds receipts with one
\* recognized event, with events of two collections, and with none
ItemMapOfReceipt(txHash) ==
    CASE txHash[3] \in {"1", "4", "7", "a", "d"} ->
            [c \in {<<"0", "x", "c">>} |-> <<"1">>]
      [] txHash[3] \in {"2", "5", "8", "b", "e"} ->
            [c \in {<<"0", "x", "c">>, <<"0", "x", "d">>} |->
                IF c = <<"0", "x", "c">> THEN <<"1", "2">> ELSE <<"7">>]
      [] OTHER -> EmptyItemMap

BatchOfAllTheRest(start) ==
    {txHashes[k] : k \in (start + 1)..Len(txHashes)}

\* txHashes.slice(i, i + batchSize), as the set of its hashes
BatchAt(start) ==
    {txHashes[k] : k \in (start + 1)..Min(start + txBatchSize, Len(txHashes))}

RECURSIVE SumOfIds(_, _)
\* txTransferCount: the ids of all lists of an item map (keys is its domain)
SumOfIds(itemMap, keys) ==
    IF keys = {} THEN 0
    ELSE LET c == CHOOSE x \in keys : TRUE
         IN  Len(itemMap[c]) + SumOfIds(itemMap, keys \ {c})

SetBatchResultsSkippingEmpty(map, results) ==
    LET kept == {h \in DOMAIN results : results[h] # EmptyItemMap}
    IN  [h \in DOMAIN map \cup kept |-> IF h \in kept THEN results[h] ELSE map[h]]

\* batchResults.forEach(({ txHash, itemMap }) => result.set(txHash, itemMap))
SetBatchResults(map, results) ==
    [h \in DOMAIN map \cup DOMAIN results |->
        IF h \in DOMAIN results THEN results[h] ELSE map[h]]

\* the call: an empty list returns at once, otherwise the promises of the
\* first batch are created and each asks for its receipt
StartResolver ==
    /\ resolverPc = "called"
    /\ IF Len(txHashes) = 0
       THEN resolverPc' = "done" /\ UNCHANGED inFlight
       ELSE resolverPc' = "await" /\ inFlight' = BatchAt(0)
    /\ UNCHANGED <<txHashes, batchStart, batchResults, result, failedFetches,
                   totalTransferEvents, transactionsWithTransferEvents,
                   transactionsWithNoLogs, transactionsWithErrors,
                   processVars, fetchVars, componentVars, queryVars,
                   receiptVars>>

\* the promise of one transaction goes on with itemMap: the statistics and
\* { txHash, itemMap }
PromiseSettles(txHash, itemMap) ==
    LET txTransferCount == SumOfIds(itemMap, DOMAIN itemMap)
        txHasLogs == DOMAIN itemMap # {}
    IN  /\ inFlight' = inFlight \ {txHash}
        /\ batchResults' = [h \in DOMAIN batchResults \cup {txHash} |->
                                IF h = txHash THEN itemMap ELSE batchResults[h]]
        /\ transactionsWithTransferEvents' =
              IF txTransferCount > 0 THEN transactionsWithTransferEvents + 1
              ELSE transactionsWithTransferEvents
        /\ totalTransferEvents' = totalTransferEvents + txTransferCount
        /\ transactionsWithNoLogs' =
              IF txTransferCount = 0 /\ txHasLogs THEN transactionsWithNoLogs + 1
              ELSE transactionsWithNoLogs
        /\ UNCHANGED <<resolverPc, txHashes, batchStart, result, transactionsWithErrors,
                       processVars, fetchVars, componentVars, queryVars,
                   receiptVars>>

\* getTransactionReceipt answers for one transaction of the batch
ReceiptArrives ==
    /\ resolverPc = "await"
    /\ \E txHash \in inFlight :
          /\ PromiseSettles(txHash, ItemMapOfReceipt(txHash))
          /\ UNCHANGED failedFetches

\* getTransactionReceipt rejects for one transaction of the batch: the catch
\* of extractItemIdsFromTx returns new Map(), so the try block of the batch
\* promise goes on as with any other item map
ReceiptFails ==
    /\ resolverPc = "await"
    /\ \E txHash \in inFlight :
          /\ PromiseSettles(txHash, EmptyItemMap)
          /\ failedFetches' = failedFetches \cup {txHash}

\* Promise.all resolved and more hashes are left: the results are set and the
\* 100 ms timer is started
BatchSettled ==
    /\ resolverPc = "await"
    /\ inFlight = {}
    /\ batchStart + txBatchSize < Len(txHashes)
    /\ result' = SetBatchResults(result, batchResults)
    /\ resolverPc' = "pause"
    /\ UNCHANGED <<txHashes, batchStart, inFlight, batchResults, failedFetches,
                   totalTransferEvents, transactionsWithTransferEvents,
                   transactionsWithNoLogs, transactionsWithErrors,
                   processVars, fetchVars, componentVars, queryVars,
                   receiptVars>>

\* Promise.all resolved for the last batch: the results are set, the loop
\* ends and result is returned
LastBatchSettled ==
    /\ resolverPc = "await"
    /\ inFlight = {}
    /\ ~(batchStart + txBatchSize < Len(txHashes))
    /\ result' = SetBatchResults(result, batchResults)
    /\ batchStart' = batchStart + txBatchSize
    /\ resolverPc' = "done"
    /\ UNCHANGED <<txHashes, inFlight, batchResults, failedFetches,
                   totalTransferEvents, transactionsWithTransferEvents,
                   transactionsWithNoLogs, transactionsWithErrors,
                   processVars, fetchVars, componentVars, queryVars,
                   receiptVars>>

\* the timer fired: i += batchSize and the promises of the next batch are
\* created
PauseOver ==
    /\ resolverPc = "pause"
    /\ batchStart' = batchStart + txBatchSize
    /\ inFlight' = BatchAt(batchStart')
    /\ batchResults' = <<>>
    /\ resolverPc' = "await"
    /\ UNCHANGED <<txHashes, result, failedFetches,
                   totalTransferEvents, transactionsWithTransferEvents,
                   transactionsWithNoLogs, transactionsWithErrors,
                   processVars, fetchVars, componentVars, queryVars,
                   receiptVars>>

-----------------------------------------------------------------------------
(* fetchAndCalculateFees: the fetch, processCurations and the resolver of    *)
(* one query, step by step                                                   *)

\* the curation the source holds at a rank: every record is of a transaction
\* of its own; the first is the latest in time, the second was created at the
\* cutoff, the third pays no fee
CurationOfRecord(rank) ==
    LET c == [ReferenceCuration EXCEPT !.txHash = TxHashOf(rank)]
    IN  CASE rank = 1 -> [c EXCEPT !.timestamp = <<"2", "0", "0">>]
          [] rank = 2 -> [c EXCEPT !.collection.createdAt =
                                <<"1","6","5","8","1","5","3","8","5","3">>]
          [] rank = 3 -> [c EXCEPT !.collection.items = <<Item(<<"0">>)>>]
          [] OTHER -> c

\* await fetchAllCurations(dateRange) resolves and
\* processCurations(response.data.curations) is called
FetchReturns ==
    /\ fetchPc = "done"
    /\ pc = "idle"
    /\ curations' = [k \in 1..Len(response) |-> CurationOfRecord(response[k])]
    /\ pc' = "start"
    /\ UNCHANGED <<sortedCurations, uniqueTxHashes, itemIdMap, itemIdQueues,
                   curatorFees, idx, steps, finalSummaries, fetchVars, outerVars>>

\* extractItemIdsFromTxs(uniqueTxHashes) is called
CallResolver ==
    /\ pc = "resolve"
    /\ resolverPc = "idle"
    /\ txHashes' = uniqueTxHashes
    /\ resolverPc' = "called"
    /\ pc' = "resolving"
    /\ UNCHANGED <<curations, sortedCurations, uniqueTxHashes, itemIdMap, itemIdQueues,
                   curatorFees, idx, steps, finalSummaries, fetchVars,
                   batchStart, inFlight, batchResults, result, failedFetches,
                   totalTransferEvents, transactionsWithTransferEvents,
                   transactionsWithNoLogs, transactionsWithErrors,
                   componentVars, queryVars,
                   receiptVars>>

ResolverWasCalled == resolverPc # "idle"

\* the promise of extractItemIdsFromTxs is resolved
ResolverHasReturned == resolverPc = "done"

\* await extractItemIdsFromTxs goes on with the returned map: the queues are
\* built from it
ResolverReturns ==
    /\ pc = "resolving"
    /\ ResolverHasReturned
    /\ itemIdMap' = result
    /\ itemIdQueues' = QueuesOf(result)
    /\ pc' = "loop"
    /\ UNCHANGED <<curations, sortedCurations, uniqueTxHashes,
                   curatorFees, idx, steps, finalSummaries, fetchVars, outerVars>>

-----------------------------------------------------------------------------
(* Specification of processCurations *)

SeqsUpTo(S, n) == UNION {[1..k -> S] : k \in 0..n}

\* the state in which processCurations is entered
Entered ==
    /\ pc = "start"
    /\ sortedCurations = <<>>
    /\ uniqueTxHashes = <<>>
    /\ itemIdMap = <<>>
    /\ itemIdQueues = <<>>
    /\ curatorFees = <<>>
    /\ idx = 0
    /\ steps = <<>>
    /\ finalSummaries = <<>>

\* fetchAllCurations is entered: allCurations = [], skip = 0
FetchEntered ==
    /\ fetchPc = "loop"
    /\ skip = 0
    /\ allCurations = <<>>
    /\ requests = <<>>
    /\ pages = <<>>
    /\ response = <<>>

\* the fetch of this query is over and has delivered the curations
FetchOver ==
    /\ fetchPc = "done"
    /\ sourceSize = Len(curations)
    /\ skip = 0
    /\ allCurations = <<>>
    /\ requests = <<>>
    /\ pages = <<>>
    /\ response = <<>>

\* fetchAndCalculateFees has begun: setLoading(true), onLoadingChange(true),
\* setError(null); App still holds its initial empty list
QueryRunning ==
    /\ loading = TRUE
    /\ error = <<>>
    /\ reportFees = <<>>
    /\ feesCalls = <<>>
    /\ clipboard = <<>>

\* extractItemIdsFromTxs is not being looked into
ResolverIdle ==
    /\ resolverPc = "idle"
    /\ txHashes = <<>>
    /\ batchStart = 0
    /\ inFlight = {}
    /\ batchResults = <<>>
    /\ result = <<>>
    /\ failedFetches = {}
    /\ totalTransferEvents = 0
    /\ transactionsWithTransferEvents = 0
    /\ transactionsWithNoLogs = 0
    /\ transactionsWithErrors = 0

\* one query alone, the date range never changes
SingleQuery == dateRange = 0 /\ queries = <<>>

\* extractItemIdsFromTx is not being looked into
ReceiptIdle ==
    /\ receiptPc = "idle"
    /\ receiptLogs = <<>>
    /\ logIndex = 0
    /\ collectionItemMap = <<>>
    /\ transferEventCount = 0
    /\ mapsSeen = <<>>

Outer == QueryRunning /\ ResolverIdle /\ SingleQuery /\ ReceiptIdle

Init ==
    /\ curations \in SeqsUpTo(IdentityDomain, MaxCurations)
    /\ Entered /\ FetchOver /\ Outer

InitFees ==
    /\ curations \in SeqsUpTo(FeeDomain, MaxCurations)
    /\ Entered /\ FetchOver /\ Outer

InitMalformed ==
    /\ curations \in SeqsUpTo(MalformedDomain, MaxCurations)
    /\ Entered /\ FetchOver /\ Outer

InitReport ==
    /\ curations \in SeqsUpTo(ReportDomain, MaxCurations)
    /\ Entered /\ FetchOver /\ Outer

InitFetch ==
    /\ sourceSize \in 0..MaxRecords
    /\ FetchEntered
    /\ curations = <<>>
    /\ Entered /\ Outer

Next ==
    \/ SortAndFilter
    \/ ExtractItemIds
    \/ ProcessCuration
    \/ Finalize

\* processCurations over curations that differ in identity
Spec == Init /\ [][Next]_vars

\* processCurations over curations that differ in fee and creation date
SpecFees == InitFees /\ [][Next]_vars

NextMalformed ==
    \/ Next
    \/ ProcessCurationThrows

\* processCurations over curations some of which carry a malformed fee
SpecMalformed == InitMalformed /\ [][NextMalformed]_vars

NextReport ==
    \/ Next
    \/ CopyToClipboard

\* processCurations and the report that is given its summaries
SpecReport == InitReport /\ [][NextReport]_vars

NextFetch ==
    \/ EmptyPage
    \/ ShortPage
    \/ FullPage

\* fetchAllCurations against sources of every size up to MaxRecords
SpecFetch == InitFetch /\ [][NextFetch]_vars

\* the loop runs on: each response is awaited and handled
FairSpecFetch == SpecFetch /\ WF_vars(NextFetch)

\* extractItemIdsFromTxs is called with up to MaxHashes distinct hashes
InitResolver ==
    /\ \E n \in 0..MaxHashes : txHashes = [k \in 1..n |-> TxHashOf(k)]
    /\ resolverPc = "called"
    /\ batchStart = 0
    /\ inFlight = {}
    /\ batchResults = <<>>
    /\ result = <<>>
    /\ failedFetches = {}
    /\ totalTransferEvents = 0
    /\ transactionsWithTransferEvents = 0
    /\ transactionsWithNoLogs = 0
    /\ transactionsWithErrors = 0
    /\ curations = <<>>
    /\ Entered /\ FetchOver /\ QueryRunning /\ SingleQuery /\ ReceiptIdle

NextResolver ==
    \/ StartResolver
    \/ ReceiptArrives
    \/ ReceiptFails
    \/ BatchSettled
    \/ LastBatchSettled
    \/ PauseOver

\* extractItemIdsFromTxs against a chain whose receipt fetches may each fail
SpecResolver == InitResolver /\ [][NextResolver]_vars

\* the component is mounted and the effect has run for the first date range
InitQueries ==
    /\ dateRange = 0
    /\ queries = <<NewQuery(0)>>
    /\ QueryRunning /\ ResolverIdle /\ ReceiptIdle
    /\ curations = <<>>
    /\ Entered /\ FetchOver

NextQueries ==
    \/ DateRangeChanges
    \/ QueryFetched
    \/ QueryFetchFails
    \/ QueryResolved

\* the calls of fetchAndCalculateFees in flight side by side
SpecQueries == InitQueries /\ [][NextQueries]_vars

NextFetchFailing ==
    \/ NextFetch
    \/ FailedPage

\* fetchAllCurations against a source that may answer any request with a
\* status that is not ok
SpecFetchFailing == InitFetch /\ [][NextFetchFailing]_vars

\* fetchAndCalculateFees has begun and fetchAllCurations is entered; the
\* source holds a few curations, or so many that the resolver needs a second
\* batch for the transactions of those that pass the cutoff
InitQuery ==
    /\ sourceSize \in 0..MaxCurations \cup {MaxHashes + 1}
    /\ FetchEntered
    /\ curations = <<>>
    /\ pc = "idle"
    /\ sortedCurations = <<>>
    /\ uniqueTxHashes = <<>>
    /\ itemIdMap = <<>>
    /\ itemIdQueues = <<>>
    /\ curatorFees = <<>>
    /\ idx = 0
    /\ steps = <<>>
    /\ finalSummaries = <<>>
    /\ Outer

NextQuery ==
    \/ EmptyPage
    \/ ShortPage
    \/ FetchReturns
    \/ SortAndFilter
    \/ CallResolver
    \/ NextResolver
    \/ ResolverReturns
    \/ ProcessCuration
    \/ Finalize

\* one query from its fetch to the delivery of its summaries
SpecQuery == InitQuery /\ [][NextQuery]_vars

\* extractItemIdsFromTx has got the receipt: the loop over its logs begins
InitReceipt ==
    /\ receiptLogs \in SeqsUpTo(LogDomain, MaxLogs)
    /\ receiptPc = "scan"
    /\ logIndex = 0
    /\ collectionItemMap = EmptyItemMap
    /\ transferEventCount = 0
    /\ mapsSeen = <<>>
    /\ curations = <<>>
    /\ Entered /\ FetchOver /\ QueryRunning /\ ResolverIdle /\ SingleQuery

NextReceipt ==
    \/ ScanLog
    \/ ReturnItemMap

\* extractItemIdsFromTx over receipts of up to MaxLogs logs
SpecReceipt == InitReceipt /\ [][NextReceipt]_vars

-----------------------------------------------------------------------------
(* Vocabulary of the claims about processCurations *)

Processed == 1..Len(steps)

\* the (collection id, item id) pair the i-th handled curation resolved to
ResolvedCollection(i) == ToLowerCase(sortedCurations[i].collection.id)

SameResolvedItem(i, j) ==
    /\ steps[i].itemId # Null
    /\ steps[j].itemId = steps[i].itemId
    /\ ResolvedCollection(j) = ResolvedCollection(i)

HasCreationFee(curation) ==
    /\ Len(curation.collection.items) > 0
    /\ curation.collection.items[1].creationFee \notin {<<>>, <<"0">>}

\* the i-th handled curation resolved to an item that an earlier curation
\* with a creation fee resolved to
IsDuplicate(i) ==
    \E j \in 1..(i - 1) : HasCreationFee(sortedCurations[j]) /\ SameResolvedItem(i, j)

RECURSIVE SumOfFees(_, _)
SumOfFees(details, n) ==
    IF n = 0 THEN 0 ELSE SumOfFees(details, n - 1) + details[n].curatorFee

\* the resolved list of the key of curation c, empty when the map has none
ResolvedList(c) ==
    LET t == ToLowerCase(c.txHash)
        a == ToLowerCase(c.collection.id)
    IN  IF t \in DOMAIN itemIdMap /\ a \in DOMAIN itemIdMap[t]
        THEN itemIdMap[t][a] ELSE <<>>

SameKey(c, d) ==
    /\ ToLowerCase(c.txHash) = ToLowerCase(d.txHash)
    /\ ToLowerCase(c.collection.id) = ToLowerCase(d.collection.id)

\* how many curations of the key of the i-th were handled before it
EarlierOfKey(i) ==
    Cardinality({j \in 1..(i - 1) : SameKey(sortedCurations[j], sortedCurations[i])})

\* n units (MANA) in the thirds the model counts in
Units(n) == 3 * n

-----------------------------------------------------------------------------
(* C1 *)

\* C1: among the handled curations with a nonzero creation fee that resolve
\* to an item id, the first of each (collection id, item id) has
\* curatorFee = creationFee / 3, nonzero, and every later one has curatorFee = 0.
C1_DuplicateRule ==
    \A i \in Processed :
        (HasCreationFee(sortedCurations[i]) /\ steps[i].itemId # Null) =>
            IF IsDuplicate(i)
            THEN steps[i].curationFee = 0
            ELSE /\ steps[i].curationFee > 0
                 /\ 3 * steps[i].curationFee = steps[i].creationFeeAmount

-----------------------------------------------------------------------------
(* C2 *)

\* C2: a duplicate curation is in its curator's curations list with
\* curatorFee = 0, is counted in curationCount, and adds nothing to totalFees.
C2_DuplicateKeptForAudit ==
    \A i \in Processed :
        IsDuplicate(i) =>
            /\ steps[i].detail # <<>>
            /\ steps[i].detail[1].curatorFee = 0
            /\ \E k \in 1..Len(curatorFees) :
                  /\ curatorFees[k].curatorId = steps[i].curatorId
                  /\ \E n \in 1..Len(curatorFees[k].curations) :
                        curatorFees[k].curations[n] = steps[i].detail[1]
                  /\ curatorFees[k].curationCount = Len(curatorFees[k].curations)
                  /\ curatorFees[k].totalFees =
                        SumOfFees(curatorFees[k].curations, Len(curatorFees[k].curations))

-----------------------------------------------------------------------------
(* C3 *)

\* C3: the curations are handled in ascending timestamp order, and the n-th
\* handled curation of a (transaction hash, collection id) key, compared
\* without letter case, resolves to the n-th id of the resolved list of that
\* key, and to null once the list is used up.
C3_FifoMatching ==
    /\ \A i, j \in 1..Len(sortedCurations) :
          i < j => ToNumber(sortedCurations[i].timestamp)
                      <= ToNumber(sortedCurations[j].timestamp)
    /\ \A i \in Processed :
          LET list == ResolvedList(sortedCurations[i])
              n == EarlierOfKey(i)
          IN  steps[i].itemId = IF n < Len(list) THEN list[n + 1] ELSE Null

\* three curations of one key, spelled in different case, met the list [1, 2]
C3_Witness ==
    /\ pc = "done"
    /\ Len(steps) = 3
    /\ <<steps[1].itemId, steps[2].itemId, steps[3].itemId>> = <<"1", "2", Null>>
    /\ \E i, j \in Processed :
          /\ sortedCurations[i].txHash # sortedCurations[j].txHash
          /\ SameKey(sortedCurations[i], sortedCurations[j])

-----------------------------------------------------------------------------
(* C4 *)

\* the ids handed out so far to the curations of the key of curation c, in order
RECURSIVE HandedOut(_, _)
HandedOut(c, n) ==
    IF n = 0 THEN <<>>
    ELSE IF SameKey(sortedCurations[n], c) /\ steps[n].itemId # Null
         THEN Append(HandedOut(c, n - 1), steps[n].itemId)
         ELSE HandedOut(c, n - 1)

\* C4: in every state of the loop, the ids handed out under a key are a prefix
\* of the resolved list of that key, each position given once, and what the
\* queue still holds is the rest of the list.
C4_EachEventConsumedOnce ==
    pc \in {"loop", "done"} =>
        \A i \in 1..Len(sortedCurations) :
            LET c == sortedCurations[i]
                list == ResolvedList(c)
                handed == HandedOut(c, Len(steps))
                key == QueueKey(ToLowerCase(c.txHash), ToLowerCase(c.collection.id))
            IN  /\ Len(handed) <= Len(list)
                /\ handed = SubSeq(list, 1, Len(handed))
                /\ list # <<>> =>
                      itemIdQueues[key] = SubSeq(list, Len(handed) + 1, Len(list))

\* a key whose list of two ids was used up by three curations
C4_Witness ==
    /\ pc = "loop"
    /\ \E i \in Processed :
          /\ Len(ResolvedList(sortedCurations[i])) = 2
          /\ EarlierOfKey(i) = 2
          /\ steps[i].itemId = Null

-----------------------------------------------------------------------------
(* C5 *)

ScenarioCurations ==
    <<ReferenceCuration, [ReferenceCuration EXCEPT !.timestamp = <<"2", "0", "0">>]>>

ScenarioItemIdMap ==
    [t \in {<<"0", "x", "a">>} |-> [c \in {<<"0", "x", "c">>} |-> <<"1">>]]

InScenario ==
    /\ pc = "done"
    /\ curations = ScenarioCurations
    /\ itemIdMap = ScenarioItemIdMap

\* C5: a handled curation with a creation fee whose item id is null is paid
\* creationFee / 3 and recorded, whatever was handled before it; in the
\* scenario the first curation resolves to "1" with fee 1, the second to null
\* with fee 1, and the one summary has totalFees = 2 and curationCount = 2.
C5_UnresolvedNeverDuplicate ==
    /\ \A i \in Processed :
          (steps[i].itemId = Null /\ HasCreationFee(sortedCurations[i])) =>
              /\ steps[i].curationFee > 0
              /\ 3 * steps[i].curationFee = steps[i].creationFeeAmount
              /\ steps[i].detail # <<>>
              /\ steps[i].detail[1].curatorFee = steps[i].curationFee
    /\ InScenario =>
          /\ Len(steps) = 2
          /\ steps[1].itemId = "1" /\ steps[1].curationFee = Units(1)
          /\ steps[2].itemId = Null /\ steps[2].curationFee = Units(1)
          /\ Len(finalSummaries) = 1
          /\ finalSummaries[1].curatorId = <<"0", "x", "u", "1">>
          /\ finalSummaries[1].totalFees = Units(2)
          /\ finalSummaries[1].curationCount = 2

C5_Witness == InScenario /\ Len(steps) = 2 /\ steps[2].itemId = Null

-----------------------------------------------------------------------------
(* C6 *)

RECURSIVE TotalCount(_, _)
TotalCount(fees, n) ==
    IF n = 0 THEN 0 ELSE TotalCount(fees, n - 1) + fees[n].curationCount

RECURSIVE TotalFees(_, _)
TotalFees(fees, n) ==
    IF n = 0 THEN 0 ELSE TotalFees(fees, n - 1) + fees[n].totalFees

IsLate(curation) == ParseInt(curation.collection.createdAt) > CreatedAtCutoff

\* the fee-bearing curations of the input created after the cutoff
PaidLate(list) == {i \in 1..Len(list) : HasCreationFee(list[i]) /\ IsLate(list[i])}

\* the sum of creationFee / 3 over the curations list[i], i in the set among 1..n
RECURSIVE FeesOf(_, _, _)
FeesOf(list, among, n) ==
    IF n = 0 THEN 0
    ELSE FeesOf(list, among, n - 1)
         + (IF n \in among
            THEN convertBigNumberToEther(list[n].collection.items[1].creationFee) \div 3
            ELSE 0)

\* C6: once the filter has run, every curation the loop handles was created
\* after 1658153853, and the counts and totals of the summaries are bounded by
\* (in the returned list: equal to) those of the fee-bearing input curations
\* created after the cutoff.
C6_CutoffFilter ==
    pc # "start" =>
        LET paid == PaidLate(curations)
            fees == FeesOf(curations, paid, Len(curations))
        IN  /\ \A i \in 1..Len(sortedCurations) : IsLate(sortedCurations[i])
            /\ TotalCount(curatorFees, Len(curatorFees)) <= Cardinality(paid)
            /\ TotalFees(curatorFees, Len(curatorFees)) <= fees
            /\ pc = "done" =>
                  /\ TotalCount(finalSummaries, Len(finalSummaries)) = Cardinality(paid)
                  /\ TotalFees(finalSummaries, Len(finalSummaries)) = fees

\* a run whose input held a fee-bearing curation created exactly at the cutoff,
\* next to one created after it
C6_Witness ==
    /\ pc = "done"
    /\ \E i \in 1..Len(curations) :
          /\ ParseInt(curations[i].collection.createdAt) = CreatedAtCutoff
          /\ HasCreationFee(curations[i])
    /\ Len(finalSummaries) = 1
    /\ finalSummaries[1].curationCount = 2

-----------------------------------------------------------------------------
(* C7 *)

RECURSIVE SumOfNonzeroFees(_, _)
SumOfNonzeroFees(details, n) ==
    IF n = 0 THEN 0
    ELSE SumOfNonzeroFees(details, n - 1)
         + (IF details[n].curatorFee # 0 THEN details[n].curatorFee ELSE 0)

Conserved(summary) ==
    /\ summary.curationCount = Len(summary.curations)
    /\ summary.totalFees = SumOfNonzeroFees(summary.curations, Len(summary.curations))

\* C7: after every step of the loop and in the returned list, each summary's
\* curationCount is the length of its curations list and its totalFees is the
\* sum of the nonzero curatorFee values of that list.
C7_Conservation ==
    /\ \A k \in 1..Len(curatorFees) : Conserved(curatorFees[k])
    /\ \A k \in 1..Len(finalSummaries) : Conserved(finalSummaries[k])

\* mid-loop, a curator already in the map has received a further curation
C7_Witness ==
    /\ pc = "loop"
    /\ idx < Len(sortedCurations)
    /\ \E k \in 1..Len(curatorFees) :
          /\ curatorFees[k].curationCount = 2
          /\ curatorFees[k].curations[1].curatorFee # curatorFees[k].curations[2].curatorFee

-----------------------------------------------------------------------------
(* C8 *)

CuratorsHandled == {steps[i].curatorId : i \in Processed}

ReturnedCurators == {finalSummaries[k].curatorId : k \in 1..Len(finalSummaries)}

\* C8: a curator all of whose handled curations have no creation fee ("0",
\* missing, or no items) or are duplicates is not in the returned list, and
\* every returned summary has totalFees > 0.
C8_ZeroFeeExclusion ==
    pc = "done" =>
        /\ \A k \in 1..Len(finalSummaries) : finalSummaries[k].totalFees > 0
        /\ \A u \in CuratorsHandled :
              (\A i \in Processed :
                  steps[i].curatorId = u =>
                      (~HasCreationFee(sortedCurations[i]) \/ IsDuplicate(i)))
              => u \notin ReturnedCurators

-----------------------------------------------------------------------------
(* C9 *)

RECURSIVE Flatten(_, _)
Flatten(list, n) == IF n = 0 THEN <<>> ELSE Flatten(list, n - 1) \o list[n]

RECURSIVE SumOfLengths(_, _)
SumOfLengths(list, n) == IF n = 0 THEN 0 ELSE SumOfLengths(list, n - 1) + Len(list[n])

\* C9: the offsets requested are 0, 1000, 2000, ... in this order; what is
\* accumulated, and in the end returned, is the concatenation in request order
\* of the pages received, its length the sum of their lengths; and the last
\* page received is the first one with fewer than 1000 records.
C9_ConcatenationOfPages ==
    /\ Len(requests) = Len(pages)
    /\ \A k \in 1..Len(requests) : requests[k] = (k - 1) * 1000
    /\ allCurations = Flatten(pages, Len(pages))
    /\ fetchPc = "done" =>
          /\ response = Flatten(pages, Len(pages))
          /\ Len(response) = SumOfLengths(pages, Len(pages))
          /\ \A k \in 1..Len(pages) : (Len(pages[k]) < 1000) <=> (k = Len(pages))

\* three pages were fetched, the third one short and not empty
C9_Witness ==
    /\ fetchPc = "done"
    /\ Len(pages) = 3
    /\ Len(pages[3]) > 0
    /\ Len(response) > 2000

-----------------------------------------------------------------------------
(* C10 *)

\* a page with fewer records than the page size (or none) is the last one
\* requested, and the function has returned
StopsAtShortPage ==
    \A k \in 1..Len(pages) :
        Len(pages[k]) < 1000 => (k = Len(pages) /\ fetchPc = "done")

\* C10: no page is requested after a page with fewer than 1000 records or with
\* none, and for every source size the loop eventually ends.
C10_Terminates == [](StopsAtShortPage) /\ <>(fetchPc = "done")

\* the loop ended on a page with zero records that followed two full pages
C10_Witness ==
    /\ fetchPc = "done"
    /\ Len(pages) = 3
    /\ Len(pages[3]) = 0

-----------------------------------------------------------------------------
(* C11 *)

\* C11: the query has failed exactly when a page request was not answered
\* with a page; then fetchAllCurations has returned nothing, processCurations
\* was never handed a curation, the only list the report was given is the
\* empty one, the error message is set and loading is over.
C11_FetchFailureIsAtomic ==
    /\ (fetchPc = "failed") <=> (Len(requests) > Len(pages))
    /\ fetchPc = "failed" =>
          /\ response = <<>>
          /\ pc = "start" /\ curations = <<>> /\ finalSummaries = <<>>
          /\ feesCalls = << <<>> >>
          /\ reportFees = <<>>
          /\ error \in {RequestFailed(t) : t \in StatusTexts}
          /\ loading = FALSE

\* the third request failed after two full pages had been accumulated
C11_Witness ==
    /\ fetchPc = "failed"
    /\ Len(pages) = 2
    /\ Len(allCurations) = 2000
    /\ Len(requests) = 3

-----------------------------------------------------------------------------
(* C12 *)

\* C12: when extractItemIdsFromTxs has returned, its map has an entry for
\* every input hash; the entry of a hash whose receipt fetch failed is the
\* empty map, and the entry of every other hash is what its own receipt
\* resolves to, whichever other fetches failed.
C12_FailedReceiptIsEmptyEntry ==
    resolverPc = "done" =>
        /\ DOMAIN result = Range(txHashes)
        /\ \A h \in Range(txHashes) :
              result[h] = IF h \in failedFetches
                          THEN EmptyItemMap ELSE ItemMapOfReceipt(h)

\* eleven hashes, a failed fetch in each of the two batches, resolved ids in
\* both
C12_Witness ==
    /\ resolverPc = "done"
    /\ Len(txHashes) = 11
    /\ failedFetches = {TxHashOf(2), TxHashOf(11)}
    /\ result[TxHashOf(1)] # EmptyItemMap
    /\ result[TxHashOf(10)] # EmptyItemMap

-----------------------------------------------------------------------------
(* C13 *)

\* C13: when extractItemIdsFromTxs has returned, transactionsWithErrors is the
\* number of input hashes whose receipt fetch failed.
C13_FailuresAreCounted ==
    resolverPc = "done" => transactionsWithErrors = Cardinality(failedFetches)

-----------------------------------------------------------------------------
(* C14 *)

\* the message holds the string h
Names(message, h) ==
    \E k \in 1..Len(message) :
        k + Len(h) - 1 <= Len(message) /\ SubSeq(message, k, k + Len(h) - 1) = h

\* C14: if a curation that passed the cutoff has a first creationFee that is
\* no integer, the computation does not complete; when it fails the report is
\* given the empty list only, and the error message names the transaction
\* hash of the curation that was being handled.
C14_MalformedFeeNamesTx ==
    /\ pc = "done" =>
          \A k \in 1..Len(sortedCurations) : ~FeeIsMalformed(sortedCurations[k])
    /\ pc = "failed" =>
          /\ FeeIsMalformed(sortedCurations[idx + 1])
          /\ feesCalls = << <<>> >>
          /\ reportFees = <<>>
          /\ finalSummaries = <<>>
          /\ error # <<>>
          /\ \/ Names(error, sortedCurations[idx + 1].txHash)
             \/ Names(error, ToLowerCase(sortedCurations[idx + 1].txHash))

-----------------------------------------------------------------------------
(* C16 *)

\* C16: when a run is over, a second run on the curation list and the
\* resolved map it leaves behind returns the same summaries; and at every
\* step the lists of the resolved map are as long as what their queue holds
\* plus what it has handed out.
C16_Idempotent ==
    /\ pc = "done" => processCurations(curations, itemIdMap) = finalSummaries
    /\ pc \in {"loop", "done"} =>
          \A k \in 1..Len(sortedCurations) :
              LET c == sortedCurations[k]
                  key == CurationQueueKey(c)
              IN  key \in DOMAIN itemIdQueues =>
                      Len(ResolvedList(c)) =
                          Len(itemIdQueues[key]) + Len(HandedOut(c, Len(steps)))

\* a run that shifted two ids off a queue and returned two summaries
C16_Witness ==
    /\ pc = "done"
    /\ Len(finalSummaries) = 2
    /\ \E k \in Processed : steps[k].itemId = "2"

-----------------------------------------------------------------------------
(* C15 *)

\* the locals of at most one call change in a step
OneCallAtATime ==
    \A p, q \in DOMAIN queries :
        (queries'[p] # queries[p] /\ queries'[q] # queries[q]) => p = q

\* the summaries of every finished call are those of its own curations and
\* its own resolved map, and a call that has not reached its forEach holds an
\* empty curatorFees map
OwnResultsOnly ==
    \A q \in DOMAIN queries :
        /\ queries[q].pc = "done" =>
              queries[q].finalSummaries =
                  processCurations(queries[q].curations, queries[q].itemIdMap)
        /\ queries[q].pc # "done" => queries[q].curatorFees = <<>>

\* C15: whatever calls are in flight next to it, a call returns the summaries
\* computed from its own curations and resolved ids alone, and no step of one
\* call changes the locals of another.
C15_QueriesShareNoState == []OwnResultsOnly /\ [][OneCallAtATime]_vars

\* the date range changed while the first call was in flight; both calls
\* finished with summaries, the abandoned one after the new one
C15_Witness ==
    /\ Len(queries) = 2
    /\ queries[1].pc = "done" /\ queries[2].pc = "done"
    /\ queries[1].finalSummaries # <<>>
    /\ queries[2].finalSummaries # <<>>
    /\ reportFees = queries[1].finalSummaries
    /\ Len(feesCalls) = 2

-----------------------------------------------------------------------------
(* C17 *)

\* C17: in the returned list every summary has totalFees at least those of
\* the next one, and of two summaries with equal totalFees the one whose
\* curator the loop inserted first comes first.
C17_DescendingStable ==
    pc = "done" =>
        \A k, l \in 1..Len(finalSummaries) :
            k < l =>
                /\ finalSummaries[k].totalFees >= finalSummaries[l].totalFees
                /\ finalSummaries[k].totalFees = finalSummaries[l].totalFees =>
                      SummaryIndex(curatorFees, finalSummaries[k].curatorId)
                          < SummaryIndex(curatorFees, finalSummaries[l].curatorId)

\* two curators with equal totals were returned
C17_Witness ==
    /\ pc = "done"
    /\ Len(finalSummaries) = 2
    /\ finalSummaries[1].totalFees = finalSummaries[2].totalFees

\* the sort moved the curator inserted second to the front
C17_Reordered ==
    /\ pc = "done"
    /\ Len(finalSummaries) = 2
    /\ finalSummaries[1] = curatorFees[2]
    /\ finalSummaries[1].totalFees > finalSummaries[2].totalFees

-----------------------------------------------------------------------------
(* C18 *)

\* C18: the keys of the curatorFees map are lowercase and distinct; every
\* recorded curation is in the summary of its lowercased curator id; a
\* summary of a curator outside the directory is named "Unknown" and paid to
\* its own lowercased address, one of a curator inside it carries the name and
\* the address of the directory; and the returned list has at most one
\* summary per lowercased curator id.
C18_GroupedByLowercaseCurator ==
    /\ \A k, l \in 1..Len(curatorFees) :
          curatorFees[k].curatorId = curatorFees[l].curatorId => k = l
    /\ \A k, l \in 1..Len(finalSummaries) :
          finalSummaries[k].curatorId = finalSummaries[l].curatorId => k = l
    /\ \A k \in 1..Len(curatorFees) :
          LET summary == curatorFees[k]
              u == summary.curatorId
          IN  /\ u = ToLowerCase(u)
              /\ IF curatorData(u) = <<>>
                 THEN summary.curatorName = "Unknown" /\ summary.paymentAddress = u
                 ELSE /\ summary.curatorName = curatorData(u)[1].name
                      /\ summary.paymentAddress = curatorData(u)[1].paymentAddress
    /\ \A i \in Processed :
          steps[i].detail # <<>> =>
              \E k \in 1..Len(curatorFees) :
                  /\ curatorFees[k].curatorId = ToLowerCase(sortedCurations[i].curator.id)
                  /\ \E n \in 1..Len(curatorFees[k].curations) :
                        curatorFees[k].curations[n] = steps[i].detail[1]

\* curations by 0xU1 and 0xu1 landed in one summary, next to the summary of
\* a curator the directory does not know
C18_Witness ==
    /\ pc = "done"
    /\ \E i, j \in 1..Len(sortedCurations) :
          /\ sortedCurations[i].curator.id = <<"0", "x", "U", "1">>
          /\ sortedCurations[j].curator.id = <<"0", "x", "u", "1">>
    /\ \E k, l \in 1..Len(finalSummaries) :
          /\ finalSummaries[k].curatorId = <<"0", "x", "u", "1">>
          /\ finalSummaries[k].curationCount = 2
          /\ finalSummaries[l].curatorName = "Unknown"
          /\ finalSummaries[l].paymentAddress = <<"0", "x", "u", "2">>

-----------------------------------------------------------------------------
(* C20 *)

ThreeTimesTenToThe18 ==
    <<"3", "0", "0", "0", "0", "0", "0", "0", "0", "0",
      "0", "0", "0", "0", "0", "0", "0", "0", "0">>

\* C20: a handled curation with a creation fee that is no duplicate has
\* creationFeeAmount = (creationFee of its first item) / 10^18, whatever its
\* other items carry, and curationFee = creationFeeAmount / 3; the fee
\* "3000000000000000000" gives a curationFee of exactly 1.
C20_FeeConversion ==
    \A i \in Processed :
        (HasCreationFee(sortedCurations[i]) /\ ~IsDuplicate(i)) =>
            LET fee == sortedCurations[i].collection.items[1].creationFee
                whole == Len(fee) - 18
            IN  /\ (whole > 0 /\ \A j \in (whole + 1)..Len(fee) : fee[j] = "0") =>
                      steps[i].creationFeeAmount = Units(DecimalValue(fee, whole))
                /\ 3 * steps[i].curationFee = steps[i].creationFeeAmount
                /\ fee = ThreeTimesTenToThe18 => steps[i].curationFee = Units(1)

\* a curation whose two items carry the fees 1 and 3 was paid a third of a
\* unit, after one with the fee 3 * 10^18 was paid one unit
C20_Witness ==
    \E i, j \in Processed :
        /\ i < j
        /\ HasCreationFee(sortedCurations[i])
        /\ sortedCurations[i].collection.items[1].creationFee = ThreeTimesTenToThe18
        /\ steps[i].curationFee = Units(1)
        /\ Len(sortedCurations[j].collection.items) = 2
        /\ ~IsDuplicate(j)
        /\ 3 * steps[j].curationFee = Units(1)

-----------------------------------------------------------------------------
(* C19 *)

\* the lines of a text, each without its "\n"; what follows the last "\n",
\* if anything, counts as a line
RECURSIVE LinesOf(_)
LinesOf(text) ==
    IF text = <<>> THEN <<>>
    ELSE IF \E k \in 1..Len(text) : text[k] = "\n"
         THEN LET k == CHOOSE n \in 1..Len(text) :
                          text[n] = "\n" /\ \A j \in 1..(n - 1) : text[j] # "\n"
              IN  <<SubSeq(text, 1, k - 1)>> \o LinesOf(SubSeq(text, k + 1, Len(text)))
         ELSE <<text>>

\* a whole number of units (given in thirds) as an integer of 18 decimals
InWei(thirds) == NatToString(thirds \div 3) \o [k \in 1..18 |-> "0"]

-----------------------------------------------------------------------------
(* C21 *)

\* the receipt fetches a step starts
Started == inFlight' \ inFlight

\* fetches start together, one batch at a time: at the call or when the pause
\* is over, when no fetch is in flight and every hash of the batches before
\* has its entry in the result
BatchesInSequence ==
    Started # {} =>
        /\ inFlight = {}
        /\ resolverPc \in {"called", "pause"}
        /\ Started = {txHashes[k] : k \in (batchStart' + 1)..
                                        Min(batchStart' + txBatchSize, Len(txHashes))}
        /\ \A k \in 1..batchStart' : txHashes[k] \in DOMAIN result

\* the pause is entered from a settled batch that is not the last, it is left
\* only into the next batch, and the call never returns out of a pause
PauseBetweenBatches ==
    /\ (resolverPc' = "pause" /\ resolverPc # "pause") =>
          /\ resolverPc = "await" /\ inFlight = {}
          /\ batchStart + txBatchSize < Len(txHashes)
    /\ (resolverPc = "pause" /\ resolverPc' # "pause") =>
          resolverPc' = "await" /\ Started # {}
    /\ (resolverPc = "await" /\ resolverPc' = "done") =>
          ~(batchStart + txBatchSize < Len(txHashes))
    /\ (resolverPc = "await" /\ batchStart' # batchStart) => resolverPc' = "done"

\* C21: at no time are more than 10 receipt fetches in flight; the fetches of
\* a batch start only when every fetch of the batch before has completed; and
\* a pause lies between two consecutive batches and not behind the last one.
C21_BoundedConcurrency ==
    /\ [](Cardinality(inFlight) <= txBatchSize)
    /\ [][BatchesInSequence /\ PauseBetweenBatches]_vars

\* the second batch is in flight after the ten fetches of the first have
\* completed and the pause is over
C21_Witness ==
    /\ resolverPc = "await"
    /\ batchStart = txBatchSize
    /\ inFlight # {}
    /\ Cardinality(DOMAIN result) = txBatchSize

\* ten fetches are in flight at once
C21_FullBatchInFlight == Cardinality(inFlight) = txBatchSize

-----------------------------------------------------------------------------
(* C22 *)

\* the sort and the cutoff filter of processCurations have run
SortedAndFiltered == pc \notin {"idle", "start"}

\* the queues are built or a curation was resolved, priced or aggregated
MatchingBegun ==
    \/ pc \in {"loop", "done"}
    \/ itemIdMap # <<>> \/ itemIdQueues # <<>> \/ curatorFees # <<>>
    \/ idx # 0 \/ steps # <<>> \/ finalSummaries # <<>> \/ feesCalls # <<>>

-----------------------------------------------------------------------------
(* Vocabulary of the claims about extractItemIdsFromTx *)

\* the ids the logs of LogDomain carry, in decimal, and the word of each
IdWords ==
    {<<<<"1">>, Word(<<"1">>)>>, <<<<"2">>, Word(<<"2">>)>>, <<<<"3">>, Word(<<"3">>)>>,
     <<<<"5">>, Word(<<"5">>)>>, <<<<"7">>, Word(<<"7">>)>>, <<<<"9">>, Word(<<"9">>)>>,
     <<<<"1", "0">>, Word(<<"a">>)>>, <<<<"2", "5", "5">>, Word(<<"f", "f">>)>>}

\* the id a word stands for
IdOfWord(word) == (CHOOSE p \in IdWords : p[2] = word)[1]

\* the emitting contract address in lowercase
LowercaseAddress(log) ==
    IF log.address = <<"0", "x", "C">> THEN <<"0", "x", "c">> ELSE log.address

IsTransfer(log) == Len(log.topics) > 0 /\ log.topics[1] = TRANSFER_EVENT_SIGNATURE

IsCuration(log) == Len(log.topics) > 0 /\ log.topics[1] = CURATION_EVENT_SIGNATURE

\* the id an event contributes, <<>> when it contributes none
IdOfEvent(log) ==
    CASE IsTransfer(log) ->
            IF Len(log.topics) >= 4 THEN <<IdOfWord(log.topics[4])>> ELSE <<>>
      [] IsCuration(log) ->
            IF Len(log.topics) >= 3 THEN <<IdOfWord(log.topics[3])>>
            ELSE IF Len(log.topics) = 2 THEN <<IdOfWord(log.topics[2])>>
            ELSE IF Len(log.data) >= 66
                 THEN <<IdOfWord(<<"0", "x">> \o SubSeq(log.data, 3, 66))>>
                 ELSE <<>>
      [] OTHER -> <<>>

\* collectionItemMap before the k-th iteration
MapBefore(k) == IF k = 1 THEN EmptyItemMap ELSE mapsSeen[k - 1]

ListOf(map, a) == IF a \in DOMAIN map THEN map[a] ELSE <<>>

\* the lists of all other addresses are what they were
OthersUntouched(k, a) ==
    /\ DOMAIN mapsSeen[k] \ {a} = DOMAIN MapBefore(k) \ {a}
    /\ \A b \in DOMAIN mapsSeen[k] \ {a} : mapsSeen[k][b] = MapBefore(k)[b]

\* the log indexes of the first n logs that are recognized events of the
\* address, in ascending order
RECURSIVE EventsOf(_, _)
EventsOf(a, n) ==
    IF n = 0 THEN <<>>
    ELSE IF IdOfEvent(receiptLogs[n]) # <<>> /\ LowercaseAddress(receiptLogs[n]) = a
         THEN Append(EventsOf(a, n - 1), n)
         ELSE EventsOf(a, n - 1)

-----------------------------------------------------------------------------
(* C23 *)

\* C23: every recognized event (one that carries an id) adds exactly one id
\* at the end of the list of its emitting contract address in lowercase and
\* changes no other list, every other log changes no list, and so each list
\* holds one id per recognized event of its address, in ascending order of
\* log index.
C23_OneIdPerEventInLogOrder ==
    /\ \A k \in 1..Len(mapsSeen) :
          LET log == receiptLogs[k]
              a == LowercaseAddress(log)
          IN  IF IdOfEvent(log) # <<>>
              THEN /\ a \in DOMAIN mapsSeen[k]
                   /\ Len(mapsSeen[k][a]) = Len(ListOf(MapBefore(k), a)) + 1
                   /\ SubSeq(mapsSeen[k][a], 1, Len(mapsSeen[k][a]) - 1) =
                         ListOf(MapBefore(k), a)
                   /\ OthersUntouched(k, a)
              ELSE mapsSeen[k] = MapBefore(k)
    /\ \A a \in DOMAIN collectionItemMap :
          LET events == EventsOf(a, logIndex)
          IN  /\ Len(collectionItemMap[a]) = Len(events)
              /\ \A j \in 1..Len(events) :
                    <<collectionItemMap[a][j]>> = IdOfEvent(receiptLogs[events[j]])

\* a returned map: two events of 0xC and 0xc in one list of two different
\* ids, behind or around a log that is no recognized event
C23_Witness ==
    /\ receiptPc = "returned"
    /\ Len(receiptLogs) = 3
    /\ <<"0", "x", "c">> \in DOMAIN collectionItemMap
    /\ Len(collectionItemMap[<<"0", "x", "c">>]) = 2
    /\ collectionItemMap[<<"0", "x", "c">>][1] # collectionItemMap[<<"0", "x", "c">>][2]
    /\ \E k \in 1..3 : receiptLogs[k].address = <<"0", "x", "C">>
                        /\ IdOfEvent(receiptLogs[k]) # <<>>
    /\ \E k \in 1..3 : receiptLogs[k].address = <<"0", "x", "c">>
    /\ \E k \in 1..3 : IdOfEvent(receiptLogs[k]) = <<>>

-----------------------------------------------------------------------------
(* C24 *)

\* the ids the k-th iteration added to the list of the address of its log
AddedAt(k) ==
    LET a == LowercaseAddress(receiptLogs[k])
        after == ListOf(mapsSeen[k], a)
    IN  SubSeq(after, Len(ListOf(MapBefore(k), a)) + 1, Len(after))

\* C24: a curation event contributes the id of topic position 2 when it has
\* one, else that of topic position 1, else that of the first 32 bytes of its
\* data, else none; a transfer event contributes the id of topic position 3,
\* and only when it has at least 4 topics.
C24_IdPosition ==
    \A k \in 1..Len(mapsSeen) :
        LET log == receiptLogs[k]
        IN  /\ IsCuration(log) =>
                  AddedAt(k) =
                      IF Len(log.topics) >= 3 THEN <<IdOfWord(log.topics[3])>>
                      ELSE IF Len(log.topics) >= 2 THEN <<IdOfWord(log.topics[2])>>
                      ELSE IF Len(log.data) >= 66
                           THEN <<IdOfWord(<<"0", "x">> \o SubSeq(log.data, 3, 66))>>
                           ELSE <<>>
            /\ IsTransfer(log) =>
                  AddedAt(k) =
                      IF Len(log.topics) >= 4 THEN <<IdOfWord(log.topics[4])>> ELSE <<>>

\* the scan has met a curation event with two topics behind the signature,
\* one with one, one with none and 32 bytes of data and more
C24_Witness ==
    /\ Len(mapsSeen) = 3
    /\ \A k \in 1..3 : IsCuration(receiptLogs[k]) /\ AddedAt(k) # <<>>
    /\ Len(receiptLogs[1].topics) = 3
    /\ Len(receiptLogs[2].topics) = 2
    /\ Len(receiptLogs[3].topics) = 1

\* the scan has met a transfer event with three topics, which adds nothing,
\* a curation event without an id, and a transfer event with four topics
C24_NothingToTake ==
    /\ Len(mapsSeen) = 3
    /\ IsTransfer(receiptLogs[1]) /\ Len(receiptLogs[1].topics) = 3
    /\ IsCuration(receiptLogs[2]) /\ AddedAt(2) = <<>>
    /\ IsTransfer(receiptLogs[3]) /\ AddedAt(3) # <<>>

-----------------------------------------------------------------------------
(* C25 *)

\* the timestamp as the number it stands for
TimeOf(entry) == DecimalValue(entry.timestamp, Len(entry.timestamp))

NonDecreasing(list) ==
    \A i, j \in 1..Len(list) : i < j => TimeOf(list[i]) <= TimeOf(list[j])

\* after holds the entries of before in ascending order of timestamp, those
\* of equal timestamp in the order they have in before
IsStableSortOf(after, before) ==
    /\ Len(after) = Len(before)
    /\ \E p \in Permutations(1..Len(before)) :
          /\ \A i \in 1..Len(after) : after[i] = before[p[i]]
          /\ \A i, j \in 1..Len(after) :
                i < j => \/ TimeOf(before[p[i]]) < TimeOf(before[p[j]])
                         \/ /\ TimeOf(before[p[i]]) = TimeOf(before[p[j]])
                            /\ p[i] < p[j]

\* sub holds entries of list in the order they have in list
RECURSIVE IsSubsequence(_, _)
IsSubsequence(sub, list) ==
    IF sub = <<>> THEN TRUE
    ELSE IF list = <<>> THEN FALSE
    ELSE IF Head(sub) = Head(list) THEN IsSubsequence(Tail(sub), Tail(list))
    ELSE IsSubsequence(sub, Tail(list))

\* the details of the first n handled curations that were recorded for the
\* curator, in the order in which they were handled
RECURSIVE RecordedFor(_, _)
RecordedFor(curatorId, n) ==
    IF n = 0 THEN <<>>
    ELSE IF steps[n].curatorId = curatorId
         THEN RecordedFor(curatorId, n - 1) \o steps[n].detail
         ELSE RecordedFor(curatorId, n - 1)

\* the sort puts the array handed in into ascending order of timestamp and
\* keeps the input order of equal timestamps
SortKeepsTies == pc = "start" /\ pc' # "start" => IsStableSortOf(curations', curations)

\* the curations are handled in the order the sort has left, and every
\* summary lists its curations in the order in which they were handled
HandledInSortedOrder ==
    /\ pc # "start" =>
          /\ NonDecreasing(curations)
          /\ IsSubsequence(sortedCurations, curations)
    /\ \A k \in Processed :
          \A d \in Range(steps[k].detail) :
              /\ d.timestamp = sortedCurations[k].timestamp
              /\ d.txHash = sortedCurations[k].txHash
    /\ \A s \in Range(curatorFees) \cup Range(finalSummaries) :
          /\ s.curations = RecordedFor(s.curatorId, Len(steps))
          /\ NonDecreasing(s.curations)

\* C25: curations are processed in ascending timestamp order with ties in
\* their input order, so the curations list of every returned summary is in
\* non-decreasing timestamp order and its entries of equal timestamp are in
\* their input order.
C25_TemporalOrder == []HandledInSortedOrder /\ [][SortKeepsTies]_vars

\* a returned summary lists a curation of timestamp 99 before two curations
\* of timestamp 100 of different transactions
C25_Witness ==
    /\ pc = "done"
    /\ \E s \in Range(finalSummaries) :
          /\ Len(s.curations) = 3
          /\ TimeOf(s.curations[1]) = 99
          /\ TimeOf(s.curations[2]) = 100
          /\ TimeOf(s.curations[3]) = 100
          /\ s.curations[2].txHash # s.curations[3].txHash

-----------------------------------------------------------------------------
(* C26, C27 *)

InFlight(q) == queries[q].pc \in {"fetching", "resolving"}

AllFinished == \A q \in DOMAIN queries : ~InFlight(q)

\* what a finished call has handed to onFeesCalculated
DeliveredBy(q) == IF queries[q].pc = "done" THEN queries[q].finalSummaries ELSE <<>>

\* C26: once every query has finished, the fee list the report holds is the
\* result of the query for the most recent date range, whatever the order in
\* which the queries completed.
C26_LatestQueryWins ==
    AllFinished =>
        \A q \in DOMAIN queries :
            queries[q].range = dateRange => reportFees = DeliveredBy(q)

\* C27: the loading flag is true in every state in which a query is in
\* flight, and it is false once every started query has succeeded or failed
\* (the step that ends the last query clears it, so eventually is at once).
C27_LoadingWhileInFlight ==
    /\ (\E q \in DOMAIN queries : InFlight(q)) => loading = TRUE
    /\ AllFinished => loading = FALSE

-----------------------------------------------------------------------------
(* C28 *)

\* the curations of the key of c handled among the first n, with or without
\* a fee
HandledOfKey(c, n) == {j \in 1..n : SameKey(sortedCurations[j], c)}

\* the curations of the array that the cutoff filter drops
Dropped == {i \in 1..Len(curations) : ~IsLate(curations[i])}

\* C28: a handled curation without a creation fee produces no detail and
\* still takes the next id of its key, so every handled curation, fee or not,
\* gets the id at the position given by the number of curations of its key
\* handled before it (null once the list is used up), and the queue has lost
\* one id per handled curation of its key; a curation the cutoff filter drops
\* is not handled and takes no id.
C28_ZeroFeeTakesAnId ==
    pc \in {"loop", "done"} =>
        /\ Len(sortedCurations) = Len(curations) - Cardinality(Dropped)
        /\ \A i \in 1..Len(sortedCurations) : IsLate(sortedCurations[i])
        /\ \A i \in Processed :
              LET c == sortedCurations[i]
                  list == ResolvedList(c)
                  n == Cardinality(HandledOfKey(c, i - 1))
                  next == IF n < Len(list) THEN list[n + 1] ELSE Null
              IN  IF HasCreationFee(c)
                  THEN /\ steps[i].detail # <<>>
                       /\ steps[i].detail[1].itemId = next
                  ELSE /\ steps[i].detail = <<>>
                       /\ steps[i].itemId = next
        /\ \A i \in 1..Len(sortedCurations) :
              LET c == sortedCurations[i]
                  list == ResolvedList(c)
                  taken == Min(Len(list), Cardinality(HandledOfKey(c, Len(steps))))
              IN  list # <<>> =>
                      itemIdQueues[QueueKey(ToLowerCase(c.txHash),
                                            ToLowerCase(c.collection.id))]
                          = SubSeq(list, taken + 1, Len(list))

\* of three curations of one key the one created at the cutoff was dropped,
\* the one without a fee took id 1 and left no detail, and the fee-bearing
\* one behind it was recorded with id 2
C28_Witness ==
    /\ pc = "done"
    /\ Len(curations) = 3
    /\ Cardinality(Dropped) = 1
    /\ Len(steps) = 2
    /\ ~HasCreationFee(sortedCurations[1])
    /\ steps[1].itemId = "1" /\ steps[1].detail = <<>>
    /\ HasCreationFee(sortedCurations[2])
    /\ steps[2].detail # <<>>
    /\ steps[2].detail[1].itemId = "2"
    /\ itemIdQueues[CurationQueueKey(sortedCurations[2])] = <<>>

\* a fee-bearing curation behind two curations without a fee met a list of
\* two ids and was recorded with null
C28_NullAfterUnpaid ==
    /\ pc = "done"
    /\ Len(steps) = 3
    /\ ~HasCreationFee(sortedCurations[1]) /\ ~HasCreationFee(sortedCurations[2])
    /\ Len(ResolvedList(sortedCurations[3])) = 2
    /\ steps[3].detail # <<>>
    /\ steps[3].detail[1].itemId = Null

====
